---- MODULE Spec2Model ----
(***************************************************************************)
(* Account deletion cascade of GoToSocial                                  *)
(* (internal/processing/account/delete.go): Processor.Delete and           *)
(* Processor.DeleteSelf over the persistent store and the client-API       *)
(* worker queue; the cache-backed media attachment repository              *)
(* (internal/db/bundb/media.go); the administrative media entry points     *)
(* (internal/processing/admin/media.go).                                   *)
(***************************************************************************)
EXTENDS Integers, Sequences, FiniteSets, TLC

\* ------------------------------------------------------------------ bounds

\* Delete / DeleteSelf invocations in one behaviour.
MaxCalls == 2
\* Store calls that fail with an error other than db.ErrNoEntries in one behaviour.
MaxFaults == 1
\* Statuses owned by the deleted account in the paging specification.
MaxStatuses == 120
\* Repository calls in one behaviour of the concurrent cache specifications.
MaxMediaCalls == 3
\* Length of the id list of GetAttachmentsByIDs.
MaxIDs == 3

\* Administrative calls in a behaviour.
MaxAdminCalls == 3

\* ------------------------------------------------------- program constants

deleteSelectLimit == 50

\* time.Time{}: the zero time.
never == 0

\* ------------------------------------------------------------------- state

VARIABLES
    db,        \* the persistent store: one field per table
    queue,     \* batches handed to Workers.EnqueueClientAPI, in order
    calls,     \* per caller: the Delete invocation in progress
    ncalls,    \* invocations started so far (also the wall clock)
    faults,    \* store failures injected so far
    history,   \* the invocations that returned, in order: what and how
    attachments, \* the media_attachments table: id -> row
    cache,       \* the media cache: key -> cached attachment
    thr,         \* per thread: the repository call in progress
    mclock,      \* repository calls started so far (also time.Now())
    mfaults,     \* media store failures injected so far
    last,        \* what the latest step completed (a cache store, or nothing)
    admin        \* the administrative calls and the media manager's work

deleteVars == <<db, queue, calls, ncalls, faults, history>>

mediaVars == <<attachments, cache, thr, mclock, mfaults, last>>

vars == <<db, queue, calls, ncalls, faults, history,
          attachments, cache, thr, mclock, mfaults, last, admin>>

Procs == {"p1", "p2"}

\* ------------------------------------------------------------- data model

\* gtsmodel.Account.IsLocal: an empty domain denotes a local account.
IsLocal(account) == account.domain = ""

AccountRow(id, username, domain) ==
    [ id |-> id, username |-> username, domain |-> domain,
      fetchedAt |-> 1,
      avatarMediaAttachmentID |-> "avatar", avatarRemoteURL |-> "url",
      headerMediaAttachmentID |-> "header", headerRemoteURL |-> "url",
      displayName |-> "name", emojis |-> <<"emoji">>, fields |-> <<"field">>,
      note |-> "note", noteRaw |-> "note", memorial |-> TRUE,
      alsoKnownAs |-> "aka", movedToAccountID |-> "moved", reason |-> "reason",
      discoverable |-> TRUE, statusContentType |-> "text/plain",
      customCSS |-> "css", suspendedAt |-> never, suspensionOrigin |-> "",
      hideCollections |-> FALSE, enableRSS |-> TRUE ]

UserRow(id, accountID) ==
    [ id |-> id, accountID |-> accountID, email |-> "mail",
      encryptedPassword |-> <<"bcrypt", 0>>, signUpIP |-> "ip",
      currentSignInAt |-> 1, currentSignInIP |-> "ip",
      lastSignInAt |-> 1, lastSignInIP |-> "ip", signInCount |-> 7,
      locale |-> "en", createdByApplicationID |-> "app",
      lastEmailedAt |-> 1, confirmationToken |-> "tok",
      confirmationSentAt |-> 1, resetPasswordToken |-> "tok",
      resetPasswordSentAt |-> 1 ]

\* A directed edge between two accounts (follow, follow request, block,
\* notification, bookmark, fave): id, source side, target side.
Edge(id, a, t) == [ id |-> id, accountID |-> a, targetAccountID |-> t ]

Token(id, userID, clientID) == [ id |-> id, userID |-> userID, clientID |-> clientID ]

Application(id, clientID) == [ id |-> id, clientID |-> clientID ]

\* A status; boostOfID = 0 when it is no reblog.
Status(id, a, boostOfID) == [ id |-> id, accountID |-> a, boostOfID |-> boostOfID ]

\* A nil *gtsmodel.User / *gtsmodel.Account.
NoUser == [ id |-> "" ]

NoAccount == [ id |-> "" ]

AllAccounts ==
    { AccountRow("L1", "alice", ""), AccountRow("L2", "bob", ""),
      AccountRow("R1", "carol", "example.org"),
      AccountRow("R2", "dave", "example.org") }

AllUsers == { UserRow("U1", "L1"), UserRow("U2", "L2") }

\* The follows, follow requests and blocks of the store, chosen together.
\* "X0" is an account id no row exists for (referential inconsistency).
GraphChoices ==
    { [ follows |-> {}, followRequests |-> {}, blocks |-> {} ],
      [ follows |-> { Edge(1, "L1", "R1"), Edge(3, "R1", "L1") },
        followRequests |-> {}, blocks |-> {} ],
      [ follows |-> { Edge(1, "L1", "R1"), Edge(2, "L1", "L2"), Edge(3, "R1", "L1"),
                      Edge(4, "L1", "X0"), Edge(5, "R1", "R2"), Edge(6, "L2", "R2"),
                      Edge(7, "L1", "R2") },
        followRequests |-> { Edge(1, "L1", "R1"), Edge(2, "R1", "L1"),
                             Edge(3, "R1", "R2"), Edge(4, "L2", "R2") },
        blocks |-> { Edge(1, "L1", "R1"), Edge(2, "L2", "L1"), Edge(3, "L2", "R2") } ] }

\* The tokens, statuses, notifications, bookmarks and faves of the store,
\* chosen together. Tokens 1 and 2 of user U1 share one client. Statuses 1, 2
\* are L1's; 3 is R1's reblog of 1; 4 a reblog of 1 by the missing account
\* X0; 5 is R1's own status; 6 is L1's reblog of 5.
ContentChoices ==
    { [ tokens |-> {}, statuses |-> {}, engagement |-> {} ],
      [ tokens |-> { Token(1, "U1", 1), Token(2, "U1", 1), Token(3, "U2", 2) },
        statuses |-> { Status(1, "L1", 0), Status(2, "L1", 0), Status(3, "R1", 1),
                       Status(4, "X0", 1), Status(5, "R1", 0), Status(6, "L1", 5) },
        engagement |-> { Edge(1, "R1", "L1"), Edge(2, "L1", "L2"),
                         Edge(3, "L2", "R2") } ] }

\* ------------------------------------------------------- persistent store
\* The store is an external collaborator (db.DB); its operations are
\* modelled from their contract: they act on one table and report nil,
\* db.ErrNoEntries ("no matching rows") or another error.

\* The rows of S in ascending id order.
RECURSIVE RowsAsc(_)
RowsAsc(S) ==
    IF S = {} THEN <<>>
    ELSE LET r == CHOOSE x \in S : \A y \in S : x.id <= y.id
         IN  <<r>> \o RowsAsc(S \ {r})

\* At most n rows of S in descending id order.
RowsDesc(S, n) ==
    LET k == IF Cardinality(S) < n THEN Cardinality(S) ELSE n
    IN  [ i \in 1..k |->
            CHOOSE x \in S : Cardinality({ y \in S : y.id > x.id }) = i - 1 ]

\* What a store call that matched n rows may report: a call matching no row
\* may report db.ErrNoEntries; any call may fail otherwise.
StoreResults(n) ==
    {"nil"} \cup (IF n = 0 THEN {"ErrNoEntries"} ELSE {})
            \cup (IF faults < MaxFaults THEN {"ErrOther"} ELSE {})

\* What a computation that touches no store may report.
LocalResults == {"nil"} \cup (IF faults < MaxFaults THEN {"ErrOther"} ELSE {})

GetAccountByID(id) == { a \in db.accounts : a.id = id }

GetUserByAccountID(accountID) == { u \in db.users : u.accountID = accountID }

\* GetWhere(user_id = userID) on tokens.
GetTokensWhereUserID(userID) == { t \in db.tokens : t.userID = userID }

\* Follows targeting the account.
GetAccountFollowers(accountID) == { f \in db.follows : f.targetAccountID = accountID }

\* Follow requests targeting the account.
GetAccountFollowRequests(accountID) ==
    { f \in db.followRequests : f.targetAccountID = accountID }

\* Follows originating from the account.
GetAccountFollows(accountID) == { f \in db.follows : f.accountID = accountID }

\* Follow requests originating from the account.
GetAccountFollowRequesting(accountID) ==
    { f \in db.followRequests : f.accountID = accountID }

\* Blocks involving the account, in either direction.
AccountBlocks(accountID) ==
    { b \in db.blocks : b.accountID = accountID \/ b.targetAccountID = accountID }

\* One page of the account's statuses: newest first, strictly below maxID
\* (0: no cursor), at most limit rows.
GetAccountStatuses(accountID, limit, maxID) ==
    RowsDesc({ s \in db.statuses :
                 s.accountID = accountID /\ (maxID = 0 \/ s.id < maxID) }, limit)

GetStatusReblogs(status) == { s \in db.statuses : s.boostOfID = status.id }

\* A row with the listed columns taken from the in-memory model.
UpdateColumns(row, model, columns) ==
    [ f \in DOMAIN row |-> IF f \in columns THEN model[f] ELSE row[f] ]

\* The relation of a follow (request) row as the store returns it: with the
\* target account attached when its row exists, nil (NoAccount) otherwise.
WithTargetAccount(table, f) ==
    [ uri |-> <<table, f.id>>, accountID |-> f.accountID,
      targetAccountID |-> f.targetAccountID,
      targetAccount |-> IF GetAccountByID(f.targetAccountID) = {} THEN NoAccount
                        ELSE CHOOSE a \in GetAccountByID(f.targetAccountID) : TRUE ]

\* ----------------------------------------------------------------- events

\* messages.FromClientAPI; accounts are named by id, the model by its key
\* <<table, id>> (<<>>: no model).
Msg(objectType, activityType, model, origin, target) ==
    [ APObjectType |-> objectType, APActivityType |-> activityType,
      GTSModel |-> model, OriginAccount |-> origin, TargetAccount |-> target ]

\* ------------------------------------------------------------- transforms

stubbifyAccountColumns ==
    { "fetchedAt", "avatarMediaAttachmentID", "avatarRemoteURL",
      "headerMediaAttachmentID", "headerRemoteURL", "displayName", "emojis",
      "fields", "note", "noteRaw", "memorial", "alsoKnownAs",
      "movedToAccountID", "reason", "discoverable", "statusContentType",
      "customCSS", "suspendedAt", "suspensionOrigin", "hideCollections",
      "enableRSS" }

\* The suspension origin is left as it was.
stubbifyAccount_NoOrigin(account, origin, now) ==
    [ account EXCEPT
        !.fetchedAt = never,
        !.avatarMediaAttachmentID = "", !.avatarRemoteURL = "",
        !.headerMediaAttachmentID = "", !.headerRemoteURL = "",
        !.displayName = "", !.emojis = <<>>, !.fields = <<>>,
        !.note = "", !.noteRaw = "", !.memorial = FALSE,
        !.alsoKnownAs = "", !.movedToAccountID = "", !.reason = "",
        !.discoverable = FALSE, !.statusContentType = "", !.customCSS = "",
        !.suspendedAt = now,
        !.hideCollections = TRUE, !.enableRSS = FALSE ]

stubbifyAccount(account, origin, now) ==
    [ account EXCEPT
        !.fetchedAt = never,
        !.avatarMediaAttachmentID = "", !.avatarRemoteURL = "",
        !.headerMediaAttachmentID = "", !.headerRemoteURL = "",
        !.displayName = "", !.emojis = <<>>, !.fields = <<>>,
        !.note = "", !.noteRaw = "", !.memorial = FALSE,
        !.alsoKnownAs = "", !.movedToAccountID = "", !.reason = "",
        !.discoverable = FALSE, !.statusContentType = "", !.customCSS = "",
        !.suspendedAt = now, !.suspensionOrigin = origin,
        !.hideCollections = TRUE, !.enableRSS = FALSE ]

stubbifyUserColumns ==
    { "encryptedPassword", "signUpIP", "currentSignInAt", "currentSignInIP",
      "lastSignInAt", "lastSignInIP", "signInCount", "locale",
      "createdByApplicationID", "lastEmailedAt", "confirmationToken",
      "confirmationSentAt", "resetPasswordToken", "resetPasswordSentAt" }

\* bcrypt.GenerateFromPassword: the hash of a password, here tagged.
bcrypt(password) == <<"bcrypt", password>>

\* The password hash is left as it was.
stubbifyUser_KeepsPassword(user, uuid) ==
    [ user EXCEPT
        !.signUpIP = "0.0.0.0",
        !.currentSignInAt = never, !.currentSignInIP = "0.0.0.0",
        !.lastSignInAt = never, !.lastSignInIP = "0.0.0.0",
        !.signInCount = 1, !.locale = "", !.createdByApplicationID = "",
        !.lastEmailedAt = never, !.confirmationToken = "",
        !.confirmationSentAt = never, !.resetPasswordToken = "",
        !.resetPasswordSentAt = never ]

\* uuid: the freshly generated random value (positive, so never the user's
\* own password 0).
stubbifyUser(user, uuid) ==
    [ user EXCEPT
        !.encryptedPassword = bcrypt(uuid), !.signUpIP = "0.0.0.0",
        !.currentSignInAt = never, !.currentSignInIP = "0.0.0.0",
        !.lastSignInAt = never, !.lastSignInIP = "0.0.0.0",
        !.signInCount = 1, !.locale = "", !.createdByApplicationID = "",
        !.lastEmailedAt = never, !.confirmationToken = "",
        !.confirmationSentAt = never, !.resetPasswordToken = "",
        !.resetPasswordSentAt = never ]

\* The locality test of the deleted account is inverted.
unfollowSideEffectsFunc_Inverted(deletedAccount, account, follow) ==
    IF IsLocal(deletedAccount) THEN <<>>
    ELSE IF follow.targetAccount.id = "" THEN <<>>
    ELSE IF IsLocal(follow.targetAccount) THEN <<>>
    ELSE << Msg("Follow", "Undo", follow.uri, account.id, follow.targetAccount.id) >>

\* The test for a local target account is missing.
unfollowSideEffectsFunc_LocalTargets(deletedAccount, account, follow) ==
    IF ~IsLocal(deletedAccount) THEN <<>>
    ELSE IF follow.targetAccount.id = "" THEN <<>>
    ELSE << Msg("Follow", "Undo", follow.uri, account.id, follow.targetAccount.id) >>

\* The side effect of deleting one outgoing follow of the deleted account:
\* <<msg>> or <<>> (nil).
unfollowSideEffectsFunc(deletedAccount, account, follow) ==
    IF ~IsLocal(deletedAccount) THEN <<>>
    ELSE IF follow.targetAccount.id = "" THEN <<>>
    ELSE IF IsLocal(follow.targetAccount) THEN <<>>
    ELSE << Msg("Follow", "Undo", follow.uri, account.id, follow.targetAccount.id) >>

\* ------------------------------------------------------------ invocations

\* The cascade step a program position belongs to (the order of Delete's body).
StepUser == 1
StepFollows == 2
StepBlocks == 3
StepStatuses == 4
StepNotifications == 5
StepPeripheral == 6
StepAccount == 7

IdleCall ==
    [ pc |-> "idle", op |-> "", account |-> NoAccount, origin |-> "", user |-> NoUser,
      rows |-> <<>>, msgs |-> <<>>, maxID |-> 0, pages |-> 0, queries |-> 0,
      result |-> "none", errStep |-> 0, errAt |-> "", err |-> "nil", fault |-> "",
      errPrefix |-> "",
      log |-> <<>>, before |-> [ none |-> {} ], queued |-> 0 ]

\* One store access or dispatch of an invocation, as its trace records it.
Entry(step, kind, table, key) ==
    [ step |-> step, kind |-> kind, table |-> table, key |-> key ]

\* The cascade step of each program position.
StepOf(pc) ==
    CASE pc \in { "getUser", "getTokens", "deleteClient", "deleteApplication",
                  "deleteToken", "stubbifyUser", "updateUser" } -> StepUser
      [] pc \in { "getFollowers", "deleteFollowedBy", "getFollowRequests",
                  "deleteFollowRequestedBy", "getFollows", "deleteFollowing",
                  "getFollowRequesting", "deleteFollowRequesting",
                  "enqueueFollows" } -> StepFollows
      [] pc = "deleteAccountBlocks" -> StepBlocks
      [] pc \in { "getAccountStatuses", "processStatus", "enqueueStatuses" }
           -> StepStatuses
      [] pc \in { "deleteNotificationsTarget", "deleteNotificationsOrigin" }
           -> StepNotifications
      [] pc \in { "deleteBookmarksOwned", "deleteBookmarksTargeting",
                  "deleteFavesOwned", "deleteFavesTargeting" } -> StepPeripheral
      [] pc = "updateAccount" -> StepAccount
      [] OTHER -> 0

Logged(c, kind, table, key) == Append(c.log, Entry(StepOf(c.pc), kind, table, key))

\* What the error returned at a program position is wrapped with: the
\* function name that fmt.Errorf puts in front of it, "" where the error is
\* returned as it is (`return err`, and Delete's own NewErrorInternalError).
ErrorPrefix(pc) ==
    CASE StepOf(pc) = StepUser -> "deleteUserAndTokensForAccount"
      [] StepOf(pc) = StepFollows -> "deleteAccountFollows"
      [] StepOf(pc) = StepBlocks -> "deleteAccountBlocks"
      [] pc = "processStatus" -> "deleteAccountStatuses"
      [] OTHER -> ""

\* The error `err` of the call `at` ends the invocation: Delete returns
\* gtserror.NewErrorInternalError(err).
Abort(c, at, err) ==
    [ c EXCEPT !.pc = "done", !.result = "internal", !.errStep = StepOf(c.pc),
               !.errAt = at, !.err = err, !.errPrefix = ErrorPrefix(c.pc) ]

\* `err != nil`
ErrNotNil(err) == err # "nil"

\* The negation is lost: only db.ErrNoEntries counts as an error.
ErrNotNoEntries_Inverted(err) == err # "nil" /\ err = "ErrNoEntries"

\* `err != nil && !errors.Is(err, db.ErrNoEntries)`
ErrNotNoEntries(err) == err # "nil" /\ err # "ErrNoEntries"

\* The position after a fetch or a loop iteration: the loop body while rows
\* remain, the code after the loop otherwise.
LoopOr(rows, body, after) == IF rows = <<>> THEN after ELSE body

\* The user step runs whatever the account.
FirstPc_Always(account) == "getUser"

\* Delete's first branch: the user step runs for a local account only.
FirstPc(account) == IF IsLocal(account) THEN "getUser" ELSE "getFollowers"

\* The new messages are put in front of the accreted ones.
AppendMsgs_Prepend(msgs, new) == new \o msgs

\* msgs = append(msgs, ...)
AppendMsgs(msgs, new) == msgs \o new

\* The follows and follow requests of the account that the invocation has
\* deleted so far, by uri.
DeletedEdges(c, table) ==
    { <<table, f.id>> : f \in { e \in c.before[table] \ db[table] :
                                  e.accountID = c.account.id } }

\* What is remembered of an invocation that has returned; lost are the
\* outgoing edges it deleted in a follow step that failed.
Returned(c) ==
    [ op |-> c.op, account |-> c.account.id, origin |-> c.origin,
      result |-> c.result, err |-> c.err, errStep |-> c.errStep,
      lost |-> IF c.errStep = StepFollows
               THEN DeletedEdges(c, "follows") \cup DeletedEdges(c, "followRequests")
               ELSE {} ]

\* The invocation goes on as c; a store failure is counted, and remembered
\* with the position it happened at.
Commit(p, c, err) ==
    /\ calls' = [ calls EXCEPT ![p] =
                   IF err = "ErrOther" THEN [ c EXCEPT !.fault = calls[p].pc ] ELSE c ]
    /\ faults' = IF err = "ErrOther" THEN faults + 1 ELSE faults
    /\ history' = IF c.pc = "done" THEN Append(history, Returned(c)) ELSE history
    /\ UNCHANGED <<ncalls, mediaVars, admin>>

\* The origin of a deletion: the account itself, or a domain block when the
\* account is remote.
Origins(a) == IF IsLocal(a) THEN { a.id } ELSE { a.id, "DOMAINBLOCK" }

\* ------------------------------------------- media repository: the state

\* Primary ids of media attachments.
MediaIDs == {"A", "B", "C"}

\* Threads calling the repository.
MediaThreads == {"t1", "t2", "t3"}

\* nil *gtsmodel.MediaAttachment; also: no row, no cache entry.
NoAttachment == [ id |-> "" ]

\* gtsmodel.MediaAttachment: the primary id, two content columns and
\* updated_at.
Attachment(id, description, blurhash, updatedAt) ==
    [ id |-> id, description |-> description, blurhash |-> blurhash,
      updatedAt |-> updatedAt ]

\* `var attachment gtsmodel.MediaAttachment`: the zero value.
ZeroAttachment == Attachment("", "", "", never)

\* The lookups of the media cache, and its keys (lookup, key part).
Lookups == {"ID", "URL"}

CacheKeys == Lookups \X MediaIDs

\* The latest step completed nothing of note.
NoEvent == [ kind |-> "", key |-> <<>>, value |-> NoAttachment ]

\* A thread outside any repository call.
IdleThread ==
    [ pc |-> "idle", op |-> "", callNo |-> 0, id |-> "", key |-> <<>>,
      media |-> NoAttachment, columns |-> {}, ids |-> <<>>, todo |-> <<>>,
      out |-> <<>>, results |-> <<>>, value |-> NoAttachment, err |-> "nil",
      storeErr |-> "nil", source |-> "", leaderCall |-> 0, queries |-> 0,
      prev |-> NoEvent, afterDelete |-> {} ]

\* No repository call has been made; the table and the cache are empty.
MediaIdle ==
    /\ attachments = [ i \in MediaIDs |-> NoAttachment ]
    /\ cache = [ k \in CacheKeys |-> NoAttachment ]
    /\ thr = [ t \in MediaThreads |-> IdleThread ]
    /\ mclock = 0
    /\ mfaults = 0
    /\ last = NoEvent

\* --------------------------------------- administrative calls: the state

\* Callers of the administrative entry points.
AdminCallers == {"a1", "a2"}

\* A caller outside any administrative call. job is the number of the
\* manager work the call started (0: none), returned what the manager or the
\* transport controller gave back to the call.
IdleAdminCall ==
    [ pc |-> "idle", op |-> "", days |-> 0, job |-> 0, returned |-> "none",
      result |-> "none" ]

\* Work of the media manager: PruneAll or RefetchEmojis, by whom it was
\* started, whether in a goroutine of its own, and the outcome it logged.
Job(kind, caller, async) ==
    [ kind |-> kind, caller |-> caller, async |-> async, state |-> "running",
      outcome |-> "none", logged |-> FALSE ]

\* No administrative call has been made.
AdminIdle ==
    admin = [ calls |-> [ a \in AdminCallers |-> IdleAdminCall ],
              jobs |-> <<>>, ncalls |-> 0 ]

\* The store holding the chosen graph and content.
Store(gr, co) ==
    [ accounts |-> AllAccounts, users |-> AllUsers,
      tokens |-> co.tokens,
      clients |-> { t.clientID : t \in co.tokens },
      applications |-> { Application(t.clientID, t.clientID) : t \in co.tokens },
      follows |-> gr.follows, followRequests |-> gr.followRequests,
      blocks |-> gr.blocks,
      statuses |-> co.statuses, notifications |-> co.engagement,
      bookmarks |-> co.engagement, faves |-> co.engagement ]

\* No invocation has been made.
Fresh ==
    /\ queue = <<>>
    /\ calls = [ p \in Procs |-> IdleCall ]
    /\ ncalls = 0
    /\ faults = 0
    /\ history = <<>>

Init ==
    /\ \E gr \in GraphChoices, co \in ContentChoices : db = Store(gr, co)
    /\ Fresh
    /\ MediaIdle
    /\ AdminIdle

\* The accounts Delete is asked to delete: a local one and a remote one
\* (L2 and R2 stay, as the other side of edges).
DeletedAccounts == { a \in AllAccounts : a.id \in {"L1", "R1"} }

\* Delete(ctx, account, origin) is entered: the caller holds the account as
\* the store has it.
DeleteBegin(p) ==
    /\ calls[p].pc \in {"idle", "done"}
    /\ ncalls < MaxCalls
    /\ \E a \in { x \in db.accounts : x.id \in { d.id : d \in DeletedAccounts } } :
       \E origin \in Origins(a) :
         calls' = [ calls EXCEPT ![p] =
                      [ IdleCall EXCEPT !.pc = FirstPc(a), !.op = "Delete",
                                        !.account = a, !.origin = origin,
                                        !.before = db, !.queued = Len(queue) ] ]
    /\ ncalls' = ncalls + 1
    /\ UNCHANGED <<db, queue, faults, history, mediaVars, admin>>

\* The target account is left out of the message.
DeleteActorMsg_NoTarget(account) == Msg("Person", "Delete", <<>>, account.id, "")

\* The "delete actor" message DeleteSelf builds.
DeleteActorMsg(account) == Msg("Person", "Delete", <<>>, account.id, account.id)

\* DeleteSelf(ctx, account), for a local account deleting itself: one
\* "delete actor" message, no store access.
DeleteSelf(p) ==
    /\ calls[p].pc \in {"idle", "done"}
    /\ ncalls < MaxCalls
    /\ \E a \in { x \in db.accounts : IsLocal(x) } :
         LET c == [ IdleCall EXCEPT !.pc = "done", !.op = "DeleteSelf",
                                    !.account = a, !.result = "ok",
                                    !.before = db, !.queued = Len(queue) ]
         IN  /\ queue' = Append(queue, << DeleteActorMsg(a) >>)
             /\ calls' = [ calls EXCEPT ![p] = c ]
             /\ history' = Append(history, Returned(c))
    /\ ncalls' = ncalls + 1
    /\ UNCHANGED <<db, faults, mediaVars, admin>>

\* ---------------------------------- step 1: deleteUserAndTokensForAccount

GetUser(p) ==
    LET c == calls[p]
        found == GetUserByAccountID(c.account.id)
        c1 == [ c EXCEPT !.log = Logged(c, "read", "users", c.account.id) ]
    IN  /\ c.pc = "getUser"
        /\ \E err \in (IF found = {} THEN {"ErrNoEntries"} ELSE StoreResults(1)) :
             Commit(p, IF ErrNotNil(err) THEN Abort(c1, "GetUserByAccountID", err)
                       ELSE [ c1 EXCEPT !.user = CHOOSE u \in found : TRUE,
                                        !.pc = "getTokens" ], err)
        /\ UNCHANGED <<db, queue>>

GetTokens(p) ==
    LET c == calls[p]
        found == GetTokensWhereUserID(c.user.id)
        c1 == [ c EXCEPT !.log = Logged(c, "read", "tokens", c.user.id) ]
    IN  /\ c.pc = "getTokens"
        /\ \E err \in StoreResults(Cardinality(found)) :
             Commit(p, IF ErrNotNil(err) THEN Abort(c1, "GetWhere", err)
                       ELSE [ c1 EXCEPT !.rows = RowsAsc(found),
                                        !.pc = LoopOr(RowsAsc(found), "deleteClient",
                                                      "stubbifyUser") ], err)
        /\ UNCHANGED <<db, queue>>

\* DeleteByID(t.ClientID) on clients.
DeleteClient(p) ==
    LET c == calls[p]
        t == Head(c.rows)
        found == { x \in db.clients : x = t.clientID }
        c1 == [ c EXCEPT !.log = Logged(c, "write", "clients", t.clientID) ]
    IN  /\ c.pc = "deleteClient"
        /\ \E err \in StoreResults(Cardinality(found)) :
             /\ Commit(p, IF ErrNotNil(err) THEN Abort(c1, "DeleteByID", err)
                          ELSE [ c1 EXCEPT !.pc = "deleteApplication" ], err)
             /\ db' = IF err = "ErrOther" THEN db
                      ELSE [ db EXCEPT !.clients = @ \ found ]
        /\ UNCHANGED queue

\* DeleteWhere(client_id = t.ClientID) on applications.
DeleteApplication(p) ==
    LET c == calls[p]
        t == Head(c.rows)
        found == { x \in db.applications : x.clientID = t.clientID }
        c1 == [ c EXCEPT !.log = Logged(c, "write", "applications", t.clientID) ]
    IN  /\ c.pc = "deleteApplication"
        /\ \E err \in StoreResults(Cardinality(found)) :
             /\ Commit(p, IF ErrNotNil(err) THEN Abort(c1, "DeleteWhere", err)
                          ELSE [ c1 EXCEPT !.pc = "deleteToken" ], err)
             /\ db' = IF err = "ErrOther" THEN db
                      ELSE [ db EXCEPT !.applications = @ \ found ]
        /\ UNCHANGED queue

\* DeleteByID(t.ID) on tokens.
DeleteToken(p) ==
    LET c == calls[p]
        t == Head(c.rows)
        found == { x \in db.tokens : x.id = t.id }
        c1 == [ c EXCEPT !.log = Logged(c, "write", "tokens", t.id) ]
    IN  /\ c.pc = "deleteToken"
        /\ \E err \in StoreResults(Cardinality(found)) :
             /\ Commit(p, IF ErrNotNil(err) THEN Abort(c1, "DeleteByID", err)
                          ELSE [ c1 EXCEPT !.rows = Tail(c.rows),
                                           !.pc = LoopOr(Tail(c.rows), "deleteClient",
                                                         "stubbifyUser") ], err)
             /\ db' = IF err = "ErrOther" THEN db
                      ELSE [ db EXCEPT !.tokens = @ \ found ]
        /\ UNCHANGED queue

\* stubbifyUser(user): fails when the uuid or its hash cannot be produced.
StubbifyUser(p) ==
    LET c == calls[p]
    IN  /\ c.pc = "stubbifyUser"
        /\ \E err \in LocalResults :
             Commit(p, IF ErrNotNil(err) THEN Abort(c, "stubbifyUser", err)
                       ELSE [ c EXCEPT !.user = stubbifyUser(c.user, ncalls),
                                       !.pc = "updateUser" ], err)
        /\ UNCHANGED <<db, queue>>

\* UpdateUser(user, columns...).
UpdateUser(p) ==
    LET c == calls[p]
        found == { u \in db.users : u.id = c.user.id }
        c1 == [ c EXCEPT !.log = Logged(c, "write", "users", c.user.id) ]
    IN  /\ c.pc = "updateUser"
        /\ \E err \in StoreResults(Cardinality(found)) :
             /\ Commit(p, IF ErrNotNil(err) THEN Abort(c1, "UpdateUser", err)
                          ELSE [ c1 EXCEPT !.pc = "getFollowers" ], err)
             /\ db' = IF err = "ErrOther" THEN db
                      ELSE [ db EXCEPT !.users =
                               (@ \ found) \cup
                               { UpdateColumns(u, c.user, stubbifyUserColumns) : u \in found } ]
        /\ UNCHANGED queue

\* ----------------------------------------------- step 2: deleteAccountFollows

\* Follows targeting the account are fetched.
GetFollowers(p) ==
    LET c == calls[p]
        found == GetAccountFollowers(c.account.id)
        c1 == [ c EXCEPT !.log = Logged(c, "read", "follows", c.account.id) ]
    IN  /\ c.pc = "getFollowers"
        /\ \E err \in StoreResults(Cardinality(found)) :
             Commit(p, IF ErrNotNoEntries(err)
                       THEN Abort(c1, "GetAccountFollowers", err)
                       ELSE [ c1 EXCEPT !.rows = RowsAsc(found),
                                        !.pc = LoopOr(RowsAsc(found), "deleteFollowedBy",
                                                      "getFollowRequests") ], err)
        /\ UNCHANGED <<db, queue>>

\* DeleteFollowByID(follow.ID) for a follow targeting the account.
DeleteFollowedBy(p) ==
    LET c == calls[p]
        f == Head(c.rows)
        found == { x \in db.follows : x.id = f.id }
        c1 == [ c EXCEPT !.log = Logged(c, "write", "follows", f.id) ]
    IN  /\ c.pc = "deleteFollowedBy"
        /\ \E err \in StoreResults(Cardinality(found)) :
             /\ Commit(p, IF ErrNotNil(err) THEN Abort(c1, "DeleteFollowByID", err)
                          ELSE [ c1 EXCEPT !.rows = Tail(c.rows),
                                           !.pc = LoopOr(Tail(c.rows), "deleteFollowedBy",
                                                         "getFollowRequests") ], err)
             /\ db' = IF err = "ErrOther" THEN db
                      ELSE [ db EXCEPT !.follows = @ \ found ]
        /\ UNCHANGED queue

\* Follow requests targeting the account are fetched.
GetFollowRequests(p) ==
    LET c == calls[p]
        found == GetAccountFollowRequests(c.account.id)
        c1 == [ c EXCEPT !.log = Logged(c, "read", "followRequests",
                                        c.account.id) ]
    IN  /\ c.pc = "getFollowRequests"
        /\ \E err \in StoreResults(Cardinality(found)) :
             Commit(p, IF ErrNotNoEntries(err)
                       THEN Abort(c1, "GetAccountFollowRequests", err)
                       ELSE [ c1 EXCEPT !.rows = RowsAsc(found),
                                        !.pc = LoopOr(RowsAsc(found),
                                                      "deleteFollowRequestedBy",
                                                      "getFollows") ], err)
        /\ UNCHANGED <<db, queue>>

\* DeleteFollowRequestByID(followRequest.ID) for a request targeting the account.
DeleteFollowRequestedBy(p) ==
    LET c == calls[p]
        f == Head(c.rows)
        found == { x \in db.followRequests : x.id = f.id }
        c1 == [ c EXCEPT !.log = Logged(c, "write", "followRequests", f.id) ]
    IN  /\ c.pc = "deleteFollowRequestedBy"
        /\ \E err \in StoreResults(Cardinality(found)) :
             /\ Commit(p, IF ErrNotNil(err)
                          THEN Abort(c1, "DeleteFollowRequestByID", err)
                          ELSE [ c1 EXCEPT !.rows = Tail(c.rows),
                                           !.pc = LoopOr(Tail(c.rows),
                                                         "deleteFollowRequestedBy",
                                                         "getFollows") ], err)
             /\ db' = IF err = "ErrOther" THEN db
                      ELSE [ db EXCEPT !.followRequests = @ \ found ]
        /\ UNCHANGED queue

\* msgs starts empty; follows originating from the account are fetched, each
\* with its target account attached.
GetFollows(p) ==
    LET c == calls[p]
        found == GetAccountFollows(c.account.id)
        rows == [ i \in 1..Cardinality(found) |->
                    WithTargetAccount("follows", RowsAsc(found)[i]) ]
        c1 == [ c EXCEPT !.msgs = <<>>,
                         !.log = Logged(c, "read", "follows", c.account.id) ]
    IN  /\ c.pc = "getFollows"
        /\ \E err \in StoreResults(Cardinality(found)) :
             Commit(p, IF ErrNotNoEntries(err)
                       THEN Abort(c1, "GetAccountFollows", err)
                       ELSE [ c1 EXCEPT !.rows = rows,
                                        !.pc = LoopOr(rows, "deleteFollowing",
                                                      "getFollowRequesting") ], err)
        /\ UNCHANGED <<db, queue>>

\* DeleteFollowByID(follow.ID) for a follow owned by the account, then its
\* side effect.
DeleteFollowing(p) ==
    LET c == calls[p]
        f == Head(c.rows)
        found == { x \in db.follows : <<"follows", x.id>> = f.uri }
        c1 == [ c EXCEPT !.log = Logged(c, "write", "follows", f.uri[2]) ]
    IN  /\ c.pc = "deleteFollowing"
        /\ \E err \in StoreResults(Cardinality(found)) :
             /\ Commit(p, IF ErrNotNil(err) THEN Abort(c1, "DeleteFollowByID", err)
                          ELSE [ c1 EXCEPT
                                   !.msgs = AppendMsgs(c.msgs,
                                              unfollowSideEffectsFunc(c.account,
                                                                      c.account, f)),
                                   !.rows = Tail(c.rows),
                                   !.pc = LoopOr(Tail(c.rows), "deleteFollowing",
                                                 "getFollowRequesting") ], err)
             /\ db' = IF err = "ErrOther" THEN db
                      ELSE [ db EXCEPT !.follows = @ \ found ]
        /\ UNCHANGED queue

\* Follow requests originating from the account are fetched.
GetFollowRequesting(p) ==
    LET c == calls[p]
        found == GetAccountFollowRequesting(c.account.id)
        rows == [ i \in 1..Cardinality(found) |->
                    WithTargetAccount("followRequests", RowsAsc(found)[i]) ]
        c1 == [ c EXCEPT !.log = Logged(c, "read", "followRequests",
                                        c.account.id) ]
    IN  /\ c.pc = "getFollowRequesting"
        /\ \E err \in StoreResults(Cardinality(found)) :
             Commit(p, IF ErrNotNoEntries(err)
                       THEN Abort(c1, "GetAccountFollowRequesting", err)
                       ELSE [ c1 EXCEPT !.rows = rows,
                                        !.pc = LoopOr(rows, "deleteFollowRequesting",
                                                      "enqueueFollows") ], err)
        /\ UNCHANGED <<db, queue>>

\* DeleteFollowRequestByID(followRequest.ID) for a request owned by the
\* account, then the side effect of the dummy follow built from it.
DeleteFollowRequesting(p) ==
    LET c == calls[p]
        f == Head(c.rows)
        found == { x \in db.followRequests : <<"followRequests", x.id>> = f.uri }
        c1 == [ c EXCEPT !.log = Logged(c, "write", "followRequests",
                                        f.uri[2]) ]
    IN  /\ c.pc = "deleteFollowRequesting"
        /\ \E err \in StoreResults(Cardinality(found)) :
             /\ Commit(p, IF ErrNotNil(err)
                          THEN Abort(c1, "DeleteFollowRequestByID", err)
                          ELSE [ c1 EXCEPT
                                   !.msgs = AppendMsgs(c.msgs,
                                              unfollowSideEffectsFunc(c.account,
                                                                      c.account, f)),
                                   !.rows = Tail(c.rows),
                                   !.pc = LoopOr(Tail(c.rows), "deleteFollowRequesting",
                                                 "enqueueFollows") ], err)
             /\ db' = IF err = "ErrOther" THEN db
                      ELSE [ db EXCEPT !.followRequests = @ \ found ]
        /\ UNCHANGED queue

\* Workers.EnqueueClientAPI(ctx, msgs...) closes the follow step.
EnqueueFollows(p) ==
    LET c == calls[p]
    IN  /\ c.pc = "enqueueFollows"
        /\ queue' = Append(queue, c.msgs)
        /\ Commit(p, [ c EXCEPT !.pc = "deleteAccountBlocks", !.msgs = <<>>,
                                !.log = Logged(c, "dispatch", "queue",
                                               Len(c.msgs)) ], "nil")
        /\ UNCHANGED db

\* ------------------------------------------------ step 3: deleteAccountBlocks

DeleteAccountBlocks(p) ==
    LET c == calls[p]
        found == AccountBlocks(c.account.id)
        c1 == [ c EXCEPT !.log = Logged(c, "write", "blocks", c.account.id) ]
    IN  /\ c.pc = "deleteAccountBlocks"
        /\ \E err \in StoreResults(Cardinality(found)) :
             /\ Commit(p, IF ErrNotNil(err)
                          THEN Abort(c1, "DeleteAccountBlocks", err)
                          ELSE [ c1 EXCEPT !.pc = "getAccountStatuses" ], err)
             /\ db' = IF err = "ErrOther" THEN db
                      ELSE [ db EXCEPT !.blocks = @ \ found ]
        /\ UNCHANGED queue

\* ---------------------------------------------- step 4: deleteAccountStatuses

\* A boost whose account does not exist gets a message all the same.
RECURSIVE BoostMsgs_KeepMissing(_, _, _)
BoostMsgs_KeepMissing(boosts, status, account) ==
    IF boosts = <<>> THEN <<>>
    ELSE << Msg("Announce", "Undo", <<"statuses", status.id>>,
                Head(boosts).accountID, account.id) >>
         \o BoostMsgs_KeepMissing(Tail(boosts), status, account)

\* The "undo announce" messages for the boosts of a status, in id order: one
\* per boost whose account is attached or can be fetched; a boost whose
\* account does not exist is skipped.
RECURSIVE BoostMsgs(_, _, _)
BoostMsgs(boosts, status, account) ==
    IF boosts = <<>> THEN <<>>
    ELSE LET boost == Head(boosts)
         IN  (IF GetAccountByID(boost.accountID) = {} THEN <<>>
              ELSE << Msg("Announce", "Undo", <<"statuses", status.id>>, boost.accountID,
                      account.id) >>)
             \o BoostMsgs(Tail(boosts), status, account)

\* A message carrying the wrong status: the boosted one.
DeleteNote_WrongModel(status, account) ==
    Msg("Note", "Delete", <<"statuses", status.boostOfID>>, account.id, account.id)

\* The "delete note" message of one status of the account.
DeleteNote(status, account) ==
    Msg("Note", "Delete", <<"statuses", status.id>>, account.id, account.id)

\* The cursor stays at the first status of the page.
NextMaxID_First(statuses) == statuses[1].id

\* "Update next maxID from last status."
NextMaxID(statuses) == statuses[Len(statuses)].id

\* The scan ends at the first page that is not full.
ScanEnds_ShortPage(statuses) == Len(statuses) < deleteSelectLimit

\* `if len(statuses) == 0 { break statusLoop }`
ScanEnds(statuses) == Len(statuses) = 0

\* One page of the account's statuses is fetched; an empty page ends the scan.
GetStatuses(p) ==
    LET c == calls[p]
        page == GetAccountStatuses(c.account.id, deleteSelectLimit, c.maxID)
        c1 == [ c EXCEPT !.queries = @ + 1,
                         !.log = Logged(c, "read", "statuses", c.maxID) ]
    IN  /\ c.pc = "getAccountStatuses"
        /\ \E err \in StoreResults(Len(page)) :
             Commit(p, IF ErrNotNoEntries(err)
                       THEN Abort(c1, "GetAccountStatuses", err)
                       ELSE IF ScanEnds(page)
                       THEN [ c1 EXCEPT !.pc = "enqueueStatuses" ]
                       ELSE [ c1 EXCEPT !.maxID = NextMaxID(page),
                                        !.rows = page, !.pages = @ + 1,
                                        !.pc = "processStatus" ], err)
        /\ UNCHANGED <<db, queue>>

\* The loop body for one status of the page: its "delete note" message, then
\* its boosts (GetStatusReblogs, and GetAccountByID for a boost that comes
\* without its account).
ProcessStatus(p) ==
    LET c == calls[p]
        status == Head(c.rows)
        boosts == RowsAsc(GetStatusReblogs(status))
        c1 == [ c EXCEPT !.log = Logged(c, "read", "statuses", status.id) ]
        results == { <<err, "nil">> : err \in StoreResults(Len(boosts)) }
                   \cup (IF Len(boosts) > 0 /\ faults < MaxFaults
                         THEN { <<"nil", "ErrOther">> } ELSE {})
    IN  /\ c.pc = "processStatus"
        /\ \E r \in results :
             Commit(p, IF ErrNotNoEntries(r[1])
                       THEN Abort(c1, "GetStatusReblogs", r[1])
                       ELSE IF ErrNotNil(r[2])
                       THEN Abort(c1, "GetAccountByID", r[2])
                       ELSE [ c1 EXCEPT
                                !.msgs = AppendMsgs(
                                           AppendMsgs(c.msgs,
                                                      << DeleteNote(status, c.account) >>),
                                           BoostMsgs(boosts, status, c.account)),
                                !.rows = Tail(c.rows),
                                !.pc = LoopOr(Tail(c.rows), "processStatus",
                                              "getAccountStatuses") ],
                    IF r[1] = "ErrOther" THEN r[1] ELSE r[2])
        /\ UNCHANGED <<db, queue>>

\* Workers.EnqueueClientAPI(ctx, msgs...) closes the status step.
EnqueueStatuses(p) ==
    LET c == calls[p]
    IN  /\ c.pc = "enqueueStatuses"
        /\ queue' = Append(queue, c.msgs)
        /\ Commit(p, [ c EXCEPT !.pc = "deleteNotificationsTarget", !.msgs = <<>>,
                                !.log = Logged(c, "dispatch", "queue",
                                               Len(c.msgs)) ], "nil")
        /\ UNCHANGED db

\* --------------------------------------- step 5: deleteAccountNotifications

\* A delete-by-filter whose db.ErrNoEntries is tolerated: the rows `found` of
\* `table` go, and the invocation moves on to `next`.
DeleteWhereTolerant(p, pc, table, found, at, next) ==
    LET c == calls[p]
        c1 == [ c EXCEPT !.log = Logged(c, "write", table, c.account.id) ]
    IN  /\ c.pc = pc
        /\ \E err \in StoreResults(Cardinality(found)) :
             /\ Commit(p, IF ErrNotNoEntries(err) THEN Abort(c1, at, err)
                          ELSE [ c1 EXCEPT !.pc = next ], err)
             /\ db' = IF err = "ErrOther" THEN db
                      ELSE [ db EXCEPT ![table] = @ \ found ]
        /\ UNCHANGED queue

\* DeleteNotifications(ctx, nil, account.ID, ""): those targeting the account.
DeleteNotificationsTarget(p) ==
    DeleteWhereTolerant(p, "deleteNotificationsTarget",
        "notifications",
        { n \in db.notifications : n.targetAccountID = calls[p].account.id },
        "DeleteNotifications", "deleteNotificationsOrigin")

\* The second call repeats the first one's filter.
DeleteNotificationsOrigin_SameFilter(p) ==
    DeleteWhereTolerant(p, "deleteNotificationsOrigin", "notifications",
        { n \in db.notifications : n.targetAccountID = calls[p].account.id },
        "DeleteNotifications", "deleteBookmarksOwned")

\* DeleteNotifications(ctx, nil, "", account.ID): those originating from it.
DeleteNotificationsOrigin(p) ==
    DeleteWhereTolerant(p, "deleteNotificationsOrigin",
        "notifications",
        { n \in db.notifications : n.accountID = calls[p].account.id },
        "DeleteNotifications", "deleteBookmarksOwned")

\* ------------------------------------------ step 6: deleteAccountPeripheral

DeleteBookmarksOwned(p) ==
    DeleteWhereTolerant(p, "deleteBookmarksOwned", "bookmarks",
        { b \in db.bookmarks : b.accountID = calls[p].account.id },
        "DeleteStatusBookmarks", "deleteBookmarksTargeting")

DeleteBookmarksTargeting(p) ==
    DeleteWhereTolerant(p, "deleteBookmarksTargeting", "bookmarks",
        { b \in db.bookmarks : b.targetAccountID = calls[p].account.id },
        "DeleteStatusBookmarks", "deleteFavesOwned")

DeleteFavesOwned(p) ==
    DeleteWhereTolerant(p, "deleteFavesOwned", "faves",
        { f \in db.faves : f.accountID = calls[p].account.id },
        "DeleteStatusFaves", "deleteFavesTargeting")

DeleteFavesTargeting(p) ==
    DeleteWhereTolerant(p, "deleteFavesTargeting", "faves",
        { f \in db.faves : f.targetAccountID = calls[p].account.id },
        "DeleteStatusFaves", "updateAccount")

\* ------------------------------------------------- step 7: the account stub

\* stubbifyAccount(account, origin), then UpdateAccount(account, columns...).
UpdateAccount(p) ==
    LET c == calls[p]
        stub == stubbifyAccount(c.account, c.origin, ncalls)
        found == GetAccountByID(c.account.id)
        c1 == [ c EXCEPT !.account = stub,
                         !.log = Logged(c, "write", "accounts", c.account.id) ]
    IN  /\ c.pc = "updateAccount"
        /\ \E err \in StoreResults(Cardinality(found)) :
             /\ Commit(p, IF ErrNotNil(err) THEN Abort(c1, "UpdateAccount", err)
                          ELSE [ c1 EXCEPT !.pc = "done", !.result = "ok" ], err)
             /\ db' = IF err = "ErrOther" THEN db
                      ELSE [ db EXCEPT !.accounts =
                               (@ \ found) \cup
                               { UpdateColumns(a, stub, stubbifyAccountColumns) :
                                   a \in found } ]
        /\ UNCHANGED queue

\* ---------------------------------------------------------- specification

\* Callers serialize: one invocation at a time.
SeqProcs == {"p1"}

\* The steps of an invocation that has been entered.
Cascade(p) ==
    \/ GetUser(p)
    \/ GetTokens(p)
    \/ DeleteClient(p)
    \/ DeleteApplication(p)
    \/ DeleteToken(p)
    \/ StubbifyUser(p)
    \/ UpdateUser(p)
    \/ GetFollowers(p)
    \/ DeleteFollowedBy(p)
    \/ GetFollowRequests(p)
    \/ DeleteFollowRequestedBy(p)
    \/ GetFollows(p)
    \/ DeleteFollowing(p)
    \/ GetFollowRequesting(p)
    \/ DeleteFollowRequesting(p)
    \/ EnqueueFollows(p)
    \/ DeleteAccountBlocks(p)
    \/ GetStatuses(p)
    \/ ProcessStatus(p)
    \/ EnqueueStatuses(p)
    \/ DeleteNotificationsTarget(p)
    \/ DeleteNotificationsOrigin(p)
    \/ DeleteBookmarksOwned(p)
    \/ DeleteBookmarksTargeting(p)
    \/ DeleteFavesOwned(p)
    \/ DeleteFavesTargeting(p)
    \/ UpdateAccount(p)

Step(p) ==
    \/ DeleteBegin(p)
    \/ DeleteSelf(p)
    \/ Cascade(p)

Next == \E p \in SeqProcs : Step(p)

Spec == Init /\ [][Next]_vars

\* ------------------------------------------------- the status scan at scale

\* n statuses of L1, the first of them reblogged by R1 and by the missing
\* account X0, the last by R2.
ScanStatuses(n) ==
    { Status(i, "L1", 0) : i \in 1 .. n }
    \cup (IF n = 0 THEN {}
          ELSE { Status(n + 1, "R1", 1), Status(n + 2, "X0", 1),
                 Status(n + 3, "R2", n) })

\* The full store, with up to MaxStatuses statuses of L1.
InitPaging ==
    /\ \E n \in 0 .. MaxStatuses :
         \E gr \in { g \in GraphChoices : g.blocks # {} },
            co \in { x \in ContentChoices : x.tokens # {} } :
           db = [ Store(gr, co) EXCEPT !.statuses = ScanStatuses(n) ]
    /\ Fresh
    /\ MediaIdle
    /\ AdminIdle

\* Delete(ctx, account, origin) is entered, once, for the owner of the
\* statuses.
DeleteStatusOwner(p) ==
    /\ calls[p].pc = "idle"
    /\ ncalls = 0
    /\ \E a \in { x \in db.accounts : x.id = "L1" } :
         calls' = [ calls EXCEPT ![p] =
                      [ IdleCall EXCEPT !.pc = FirstPc(a), !.op = "Delete",
                                        !.account = a, !.origin = a.id,
                                        !.before = db, !.queued = Len(queue) ] ]
    /\ ncalls' = ncalls + 1
    /\ UNCHANGED <<db, queue, faults, history, mediaVars, admin>>

StepPaging(p) ==
    \/ DeleteStatusOwner(p)
    \/ Cascade(p)

NextPaging == \E p \in SeqProcs : StepPaging(p)

SpecPaging == InitPaging /\ [][NextPaging]_vars

\* The numbers of statuses at which the number of pages changes: none, one,
\* and one less than, exactly and one more than a whole number of pages; and
\* the largest number.
ScanSizes ==
    { n \in 0 .. MaxStatuses :
        \/ n % deleteSelectLimit \in { 0, 1, deleteSelectLimit - 1 }
        \/ n = MaxStatuses }

\* The full store, with one of these numbers of statuses of L1.
InitScan ==
    /\ \E n \in ScanSizes :
         \E gr \in { g \in GraphChoices : g.blocks # {} },
            co \in { x \in ContentChoices : x.tokens # {} } :
           db = [ Store(gr, co) EXCEPT !.statuses = ScanStatuses(n) ]
    /\ Fresh
    /\ MediaIdle
    /\ AdminIdle

\* The invocation, once entered, keeps running: a step it can take is taken.
SpecScan == InitScan /\ [][NextPaging]_vars /\ WF_vars(NextPaging)

\* ------------------------------------- two accounts deleted at the same time

\* A store in which L1 and R1 are connected by follows, follow requests, a
\* block, a notification, a bookmark, a fave and reblogs, and in which every
\* store call of either Delete, run one after the other in either order,
\* matches a row where it must.
ConnectedStore ==
    Store([ follows |-> { Edge(1, "L1", "R1"), Edge(2, "L1", "L2"),
                          Edge(3, "R1", "L1"), Edge(5, "R1", "R2") },
            followRequests |-> { Edge(1, "L1", "R1"), Edge(2, "R1", "L1") },
            blocks |-> { Edge(1, "L1", "R1"), Edge(2, "L2", "L1"),
                         Edge(3, "R1", "R2") } ],
          [ tokens |-> { Token(1, "U1", 1) },
            statuses |-> { Status(1, "L1", 0), Status(3, "R1", 1),
                           Status(5, "R1", 0), Status(6, "L1", 5) },
            engagement |-> { Edge(1, "R1", "L1"), Edge(2, "L1", "L2") } ])

\* No store failure other than "no matching rows" occurs.
InitConcurrent ==
    /\ db = ConnectedStore
    /\ queue = <<>>
    /\ calls = [ p \in Procs |-> IdleCall ]
    /\ ncalls = 0
    /\ faults = MaxFaults
    /\ history = <<>>
    /\ MediaIdle
    /\ AdminIdle

\* A caller enters Delete, once, for an account no other caller deletes.
DeleteOther(p) ==
    /\ calls[p].pc = "idle"
    /\ \E a \in { x \in db.accounts : x.id \in { d.id : d \in DeletedAccounts } } :
         /\ \A q \in Procs \ {p} : calls[q].account.id # a.id
         /\ calls' = [ calls EXCEPT ![p] =
                         [ IdleCall EXCEPT !.pc = FirstPc(a), !.op = "Delete",
                                           !.account = a, !.origin = a.id,
                                           !.before = db, !.queued = Len(queue) ] ]
    /\ ncalls' = ncalls + 1
    /\ UNCHANGED <<db, queue, faults, history, mediaVars, admin>>

StepConcurrent(p) ==
    \/ DeleteOther(p)
    \/ Cascade(p)

NextConcurrent == \E p \in Procs : StepConcurrent(p)

SpecConcurrent == InitConcurrent /\ [][NextConcurrent]_vars

\* ------------------------------------------------ media repository: store

\* A store failure other than "no rows" or "already exists", while the
\* budget lasts.
MediaFault == IF mfaults < MaxFaults THEN {"ErrOther"} ELSE {}

\* SELECT ... WHERE id = ?, Scan: sql.ErrNoRows (db.ErrNoEntries after
\* ProcessError) when no row matches.
SelectResults(id) ==
    (IF attachments[id] = NoAttachment THEN {"ErrNoEntries"} ELSE {"nil"})
    \cup MediaFault

\* INSERT: a row with the id already there is a constraint failure
\* (db.ErrAlreadyExists after ProcessError).
InsertResults(media) ==
    (IF attachments[media.id] = NoAttachment THEN {"nil"} ELSE {"ErrAlreadyExists"})
    \cup MediaFault

\* UPDATE and DELETE ... WHERE id = ?: matching no row is no error.
ExecResults == {"nil"} \cup MediaFault

\* Column(columns...): an empty list means every column of the model.
WrittenColumns(columns) ==
    IF columns = {} THEN {"description", "blurhash", "updatedAt"} ELSE columns

\* ------------------------------------------------ media repository: cache

\* The lookup is left out: the key names another lookup of the cache.
AttachmentKey_URL(id) == <<"URL", id>>

\* GetAttachmentByID: lookup "ID", key part id.
AttachmentKey(id) == <<"ID", id>>

\* Store keys the cached value by its primary id.
PrimaryKey(media) == <<"ID", media.id>>

\* The error of the query is dropped and the zero value returned.
loader_SwallowError(row, err) ==
    << IF err # "nil" THEN ZeroAttachment ELSE row, "nil" >>

\* The loader function of getAttachment: (nil, ProcessError(err)) when the
\* query failed, (&attachment, nil) otherwise.
loader(row, err) == IF err # "nil" THEN <<NoAttachment, err>> ELSE <<row, "nil">>

\* No fetch is ever seen in flight.
Loading_Never(key) == {}

\* The threads with a fetch for the key in flight.
Loading(key) ==
    { u \in MediaThreads : thr[u].pc \in {"query", "loaded"} /\ thr[u].key = key }

\* The attachment is appended whatever the error.
Collect_Always(out, attachment, err) == Append(out, attachment)

\* The loop body of GetAttachmentsByIDs: `continue` on an error, append
\* otherwise.
Collect(out, attachment, err) ==
    IF err # "nil" THEN out ELSE Append(out, attachment)

\* A lookup has ended for the call c: GetAttachmentByID returns its result,
\* GetAttachmentsByIDs collects it and goes on with the next id.
Deliver(c, value, err, source) ==
    IF c.op = "GetAttachmentsByIDs"
    THEN [ c EXCEPT !.out = Collect(@, value, err),
                    !.results = Append(@, [ id |-> Head(c.todo), value |-> value,
                                            err |-> err, source |-> source ]),
                    !.todo = Tail(@), !.pc = "batchNext" ]
    ELSE [ c EXCEPT !.pc = "done", !.value = value, !.err = err,
                    !.source = source ]

\* Load(lookup, loader, id) begins: a hit returns the cached value; on a miss
\* the caller joins the fetch in flight for the key, or starts one.
Lookup(t, c, id) ==
    LET key == AttachmentKey(id)
        c1 == [ c EXCEPT !.id = id, !.key = key ]
    IN  IF cache[key] # NoAttachment THEN Deliver(c1, cache[key], "nil", "hit")
        ELSE IF Loading(key) \ {t} # {}
        THEN [ c1 EXCEPT !.pc = "joined",
                         !.leaderCall =
                           thr[CHOOSE u \in Loading(key) \ {t} : TRUE].callNo ]
        ELSE [ c1 EXCEPT !.pc = "query" ]

\* A thread enters the repository: a fresh call record.
Enter(t, op) ==
    [ IdleThread EXCEPT
        !.op = op, !.callNo = mclock + 1, !.prev = last,
        !.afterDelete = { thr[u].id : u \in { x \in MediaThreads :
                            /\ thr[x].op = "DeleteAttachment"
                            /\ thr[x].pc = "done" /\ thr[x].err = "nil" } } ]

\* The thread may start a repository call.
MayEnter(t) == thr[t].pc \in {"idle", "done"} /\ mclock < MaxMediaCalls

\* A failure other than "no rows"/"already exists" uses up the budget.
Faulted(err) == IF err = "ErrOther" THEN mfaults + 1 ELSE mfaults

\* ---------------------------------------------- media repository: actions

\* GetAttachmentByID(ctx, id) is entered: the cache lookup of Load.
GetAttachmentByID(t, id) ==
    /\ MayEnter(t)
    /\ thr' = [ thr EXCEPT ![t] = Lookup(t, Enter(t, "GetAttachmentByID"), id) ]
    /\ mclock' = mclock + 1
    /\ last' = NoEvent
    /\ UNCHANGED <<attachments, cache, mfaults, deleteVars, admin>>

\* The loader runs the query of the fetch in flight.
LoadQuery(t) ==
    LET c == thr[t]
    IN  /\ c.pc = "query"
        /\ \E err \in SelectResults(c.id) :
             LET r == loader(attachments[c.id], err)
             IN  /\ thr' = [ thr EXCEPT ![t] =
                               [ c EXCEPT !.pc = "loaded", !.value = r[1],
                                          !.err = r[2], !.storeErr = err,
                                          !.queries = @ + 1 ] ]
                 /\ mfaults' = Faulted(err)
        /\ last' = NoEvent
        /\ UNCHANGED <<attachments, cache, mclock, deleteVars, admin>>

\* Load ends: a loaded value is cached; the caller and the callers that
\* joined the fetch get its result.
LoadFinish(t) ==
    LET c == thr[t]
        joined == { u \in MediaThreads : thr[u].pc = "joined" /\ thr[u].key = c.key }
    IN  /\ c.pc = "loaded"
        /\ cache' = IF c.err = "nil" THEN [ cache EXCEPT ![c.key] = c.value ]
                    ELSE cache
        /\ thr' = [ u \in MediaThreads |->
                      IF u = t THEN Deliver(c, c.value, c.err, "query")
                      ELSE IF u \in joined
                      THEN Deliver(thr[u], c.value, c.err, "joined")
                      ELSE thr[u] ]
        /\ last' = NoEvent
        /\ UNCHANGED <<attachments, mclock, mfaults, deleteVars, admin>>

\* PutAttachment(ctx, media): Store runs the insert first.
PutAttachment(t, media) ==
    /\ MayEnter(t)
    /\ \E err \in InsertResults(media) :
         /\ attachments' = IF err = "nil"
                           THEN [ attachments EXCEPT ![media.id] = media ]
                           ELSE attachments
         /\ thr' = [ thr EXCEPT ![t] =
                       [ Enter(t, "PutAttachment") EXCEPT
                           !.pc = "stored", !.id = media.id, !.media = media,
                           !.key = PrimaryKey(media), !.storeErr = err ] ]
         /\ mfaults' = Faulted(err)
    /\ mclock' = mclock + 1
    /\ last' = NoEvent
    /\ UNCHANGED <<cache, deleteVars, admin>>

\* UpdateAttachment(ctx, media, columns...): updated_at is stamped and, for
\* an update by column, added to the columns; Store runs the update first.
UpdateAttachment(t, media, columns) ==
    LET stamped == [ media EXCEPT !.updatedAt = mclock + 1 ]
        cols == IF columns # {} THEN columns \cup {"updatedAt"} ELSE columns
        row == attachments[media.id]
    IN  /\ MayEnter(t)
        /\ \E err \in ExecResults :
             /\ attachments' =
                  IF err = "nil" /\ row # NoAttachment
                  THEN [ attachments EXCEPT
                           ![media.id] = UpdateColumns(row, stamped,
                                                       WrittenColumns(cols)) ]
                  ELSE attachments
             /\ thr' = [ thr EXCEPT ![t] =
                           [ Enter(t, "UpdateAttachment") EXCEPT
                               !.pc = "stored", !.id = media.id, !.media = stamped,
                               !.columns = cols, !.key = PrimaryKey(stamped),
                               !.storeErr = err ] ]
             /\ mfaults' = Faulted(err)
        /\ mclock' = mclock + 1
        /\ last' = NoEvent
        /\ UNCHANGED <<cache, deleteVars, admin>>

\* Store ends: the value is cached when the insert or update succeeded, and
\* its error is returned otherwise.
StoreFinish(t) ==
    LET c == thr[t]
    IN  /\ c.pc = "stored"
        /\ cache' = IF c.storeErr = "nil" THEN [ cache EXCEPT ![c.key] = c.media ]
                    ELSE cache
        /\ thr' = [ thr EXCEPT ![t] = [ c EXCEPT !.pc = "done", !.err = c.storeErr ] ]
        /\ last' = IF c.storeErr = "nil"
                   THEN [ kind |-> "stored", key |-> c.key, value |-> c.media ]
                   ELSE NoEvent
        /\ UNCHANGED <<attachments, mclock, mfaults, deleteVars, admin>>

\* DeleteAttachment(ctx, id): the row is deleted; a failure is returned at
\* once.
DeleteAttachment(t, id) ==
    /\ MayEnter(t)
    /\ \E err \in ExecResults :
         /\ attachments' = IF err = "nil"
                           THEN [ attachments EXCEPT ![id] = NoAttachment ]
                           ELSE attachments
         /\ thr' = [ thr EXCEPT ![t] =
                       [ Enter(t, "DeleteAttachment") EXCEPT
                           !.pc = IF err = "nil" THEN "invalidate" ELSE "done",
                           !.id = id, !.value = attachments[id],
                           !.storeErr = err, !.err = err ] ]
         /\ mfaults' = Faulted(err)
    /\ mclock' = mclock + 1
    /\ last' = NoEvent
    /\ UNCHANGED <<cache, deleteVars, admin>>

\* Invalidate("ID", id), then DeleteAttachment returns nil.
Invalidate(t) ==
    LET c == thr[t]
    IN  /\ c.pc = "invalidate"
        /\ cache' = [ cache EXCEPT ![<<"ID", c.id>>] = NoAttachment ]
        /\ thr' = [ thr EXCEPT ![t] = [ c EXCEPT !.pc = "done" ] ]
        /\ last' = NoEvent
        /\ UNCHANGED <<attachments, mclock, mfaults, deleteVars, admin>>

\* GetAttachmentsByIDs(ctx, ids) is entered.
GetAttachmentsByIDs(t, ids) ==
    /\ MayEnter(t)
    /\ thr' = [ thr EXCEPT ![t] =
                  [ Enter(t, "GetAttachmentsByIDs") EXCEPT
                      !.pc = "batchNext", !.ids = ids, !.todo = ids ] ]
    /\ mclock' = mclock + 1
    /\ last' = NoEvent
    /\ UNCHANGED <<attachments, cache, mfaults, deleteVars, admin>>

\* `for _, id := range ids`: the next id is looked up, or the list returned
\* with a nil error.
BatchNext(t) ==
    LET c == thr[t]
    IN  /\ c.pc = "batchNext"
        /\ thr' = [ thr EXCEPT ![t] =
                      IF c.todo = <<>> THEN [ c EXCEPT !.pc = "done", !.err = "nil" ]
                      ELSE Lookup(t, c, Head(c.todo)) ]
        /\ last' = NoEvent
        /\ UNCHANGED <<attachments, cache, mclock, mfaults, deleteVars, admin>>

\* ------------------------------------------- media repository: behaviours

\* The id the concurrent calls are about.
HotIDs == {"A"}

\* The row the table holds at the start, where it holds one.
FirstRow(id) == Attachment(id, 0, 0, never)

\* The attachment PutAttachment is given, and the one UpdateAttachment is
\* given: a copy with both content columns changed.
PutInput(id) == Attachment(id, 1, 1, never)

UpdateInput(id) == Attachment(id, 2, 2, never)

\* The column lists of UpdateAttachment: every column, or one.
ColumnChoices == { {}, {"description"} }

\* A store without graph and content, for the behaviours of the repository.
EmptyStore ==
    Store(CHOOSE gr \in GraphChoices : gr.follows = {},
          CHOOSE co \in ContentChoices : co.tokens = {})

\* The table holds the rows of `present`, the cache those of `warm`.
MediaStart(present, warm) ==
    /\ attachments = [ i \in MediaIDs |->
                         IF i \in present THEN FirstRow(i) ELSE NoAttachment ]
    /\ cache = [ k \in CacheKeys |->
                   IF k[1] = "ID" /\ k[2] \in warm THEN FirstRow(k[2])
                   ELSE NoAttachment ]
    /\ thr = [ t \in MediaThreads |-> IdleThread ]
    /\ mclock = 0
    /\ mfaults = 0
    /\ last = NoEvent

\* Reads and writes of one attachment by concurrent threads.
InitCache ==
    /\ db = EmptyStore
    /\ Fresh
    /\ AdminIdle
    /\ \E present \in SUBSET HotIDs : \E warm \in SUBSET present :
         MediaStart(present, warm)

StepCache(t) ==
    \/ \E id \in HotIDs : GetAttachmentByID(t, id)
    \/ LoadQuery(t)
    \/ LoadFinish(t)
    \/ \E id \in HotIDs : PutAttachment(t, PutInput(id))
    \/ \E id \in HotIDs, columns \in ColumnChoices :
         UpdateAttachment(t, UpdateInput(id), columns)
    \/ StoreFinish(t)

NextCache == \E t \in {"t1", "t2"} : StepCache(t)

SpecCache == InitCache /\ [][NextCache]_vars

\* Reads and deletes of one attachment by concurrent threads.
StepDelete(t) ==
    \/ \E id \in HotIDs : GetAttachmentByID(t, id)
    \/ LoadQuery(t)
    \/ LoadFinish(t)
    \/ \E id \in HotIDs : DeleteAttachment(t, id)
    \/ Invalidate(t)

NextDelete == \E t \in MediaThreads : StepDelete(t)

SpecDelete == InitCache /\ [][NextDelete]_vars

\* The id lists GetAttachmentsByIDs is given.
IdLists == UNION { [ 1 .. n -> MediaIDs ] : n \in 0 .. MaxIDs }

\* One batch read over any table and any consistent cache.
InitBatch ==
    /\ db = EmptyStore
    /\ Fresh
    /\ AdminIdle
    /\ \E present \in SUBSET MediaIDs : \E warm \in SUBSET present :
         MediaStart(present, warm)

\* The one call of the behaviour.
BatchCall(t) ==
    /\ mclock = 0
    /\ \E ids \in IdLists : GetAttachmentsByIDs(t, ids)

StepBatch(t) ==
    \/ BatchCall(t)
    \/ BatchNext(t)
    \/ LoadQuery(t)
    \/ LoadFinish(t)

NextBatch == \E t \in {"t1"} : StepBatch(t)

SpecBatch == InitBatch /\ [][NextBatch]_vars

\* ------------------------------------------ administrative media entry points

\* The values of mediaRemoteCacheDays tried.
DaysChoices == {-1, 0, 1}

\* What a collaborator (media manager, transport controller) returns.
CollaboratorResults == {"nil", "error"}

\* The caller is free to make a call.
MayCall(a) ==
    /\ admin.calls[a].pc \in {"idle", "done"}
    /\ admin.ncalls < MaxAdminCalls

\* The call of caller a goes on as c; jobs is the manager's work.
AdminCommit(a, c, jobs, n) ==
    /\ admin' = [ calls |-> [ admin.calls EXCEPT ![a] = c ], jobs |-> jobs,
                  ncalls |-> n ]
    /\ UNCHANGED <<deleteVars, mediaVars>>

\* MediaPrune(mediaRemoteCacheDays): a negative value is a bad request;
\* otherwise mediaManager.PruneAll(ctx, mediaRemoteCacheDays, false) is called.
MediaPrune(a, days) ==
    LET c == [ IdleAdminCall EXCEPT !.op = "MediaPrune", !.days = days ]
    IN  /\ MayCall(a)
        /\ IF days < 0
           THEN AdminCommit(a, [ c EXCEPT !.pc = "done", !.result = "badRequest" ],
                            admin.jobs, admin.ncalls + 1)
           ELSE AdminCommit(a, [ c EXCEPT !.pc = "PruneAll",
                                          !.job = Len(admin.jobs) + 1 ],
                            Append(admin.jobs, Job("PruneAll", a, FALSE)),
                            admin.ncalls + 1)

\* PruneAll has returned err to MediaPrune, which returns nil, or err as an
\* internal error.
PruneAllReturn(a) ==
    LET c == admin.calls[a]
    IN  /\ c.pc = "PruneAll"
        /\ \E err \in CollaboratorResults :
             AdminCommit(a, [ c EXCEPT !.pc = "done", !.returned = err,
                                       !.result = IF err # "nil" THEN "internal"
                                                  ELSE "ok" ],
                         admin.jobs, admin.ncalls)

\* MediaRefetch(requestingAccount, domain): without a transport an internal
\* error; otherwise the refetch is started in a goroutine and nil returned.
MediaRefetch(a) ==
    LET c == [ IdleAdminCall EXCEPT !.op = "MediaRefetch", !.pc = "done" ]
    IN  /\ MayCall(a)
        /\ \E err \in CollaboratorResults :
             IF err # "nil"
             THEN AdminCommit(a, [ c EXCEPT !.returned = err, !.result = "internal" ],
                              admin.jobs, admin.ncalls + 1)
             ELSE AdminCommit(a, [ c EXCEPT !.returned = err, !.result = "ok",
                                            !.job = Len(admin.jobs) + 1 ],
                              Append(admin.jobs, Job("RefetchEmojis", a, TRUE)),
                              admin.ncalls + 1)

\* The goroutine of MediaRefetch: RefetchEmojis ends and its outcome is logged.
RefetchEmojis(j) ==
    /\ j <= Len(admin.jobs)
    /\ admin.jobs[j].kind = "RefetchEmojis"
    /\ admin.jobs[j].state = "running"
    /\ \E err \in CollaboratorResults :
         /\ admin' = [ admin EXCEPT !.jobs[j].state = "finished",
                                    !.jobs[j].outcome = err,
                                    !.jobs[j].logged = TRUE ]
         /\ UNCHANGED <<deleteVars, mediaVars>>

\* The media manager ends the pruning PruneAll began and logs its outcome.
PruneAll(j) ==
    /\ j <= Len(admin.jobs)
    /\ admin.jobs[j].kind = "PruneAll"
    /\ admin.jobs[j].state = "running"
    /\ \E err \in CollaboratorResults :
         /\ admin' = [ admin EXCEPT !.jobs[j].state = "finished",
                                    !.jobs[j].outcome = err,
                                    !.jobs[j].logged = TRUE ]
         /\ UNCHANGED <<deleteVars, mediaVars>>

InitAdmin ==
    /\ db = EmptyStore
    /\ Fresh
    /\ MediaStart({}, {})
    /\ AdminIdle

StepAdmin(a) ==
    \/ \E days \in DaysChoices : MediaPrune(a, days)
    \/ PruneAllReturn(a)
    \/ MediaRefetch(a)

NextAdmin ==
    \/ \E a \in AdminCallers : StepAdmin(a)
    \/ \E j \in 1..MaxAdminCalls : RefetchEmojis(j)
    \/ \E j \in 1..MaxAdminCalls : PruneAll(j)

SpecAdmin == InitAdmin /\ [][NextAdmin]_vars

\* ------------------------------------------------------------- properties

\* A Delete invocation that has returned, and one that returned success.
Returns(c) == c.op = "Delete" /\ c.pc = "done"

Succeeded(c) == Returns(c) /\ c.result = "ok"

\* The edge e has the account on one of its sides.
Involves(e, id) == e.accountID = id \/ e.targetAccountID = id

RECURSIVE Flatten(_)
Flatten(batches) ==
    IF batches = <<>> THEN <<>> ELSE Head(batches) \o Flatten(Tail(batches))

\* The batches the invocation has handed to the dispatcher, and their messages.
CallBatches(c) == SubSeq(queue, c.queued + 1, Len(queue))

CallMsgs(c) == Flatten(CallBatches(c))

\* How often m occurs in msgs.
Count(msgs, m) == Cardinality({ i \in DOMAIN msgs : msgs[i] = m })

\* The stored row of the invocation's account.
StoredAccount(c) == CHOOSE a \in db.accounts : a.id = c.account.id

\* C1: when Delete returns success the store holds no follow or follow
\* request with the account as source or target, no block involving it, no
\* notification with it as origin or target, and no bookmark or fave with it
\* on the owning or the targeted side.
C1_NoEdgesLeft ==
    \A p \in Procs :
      Succeeded(calls[p]) =>
        \A table \in { "follows", "followRequests", "blocks", "notifications",
                       "bookmarks", "faves" } :
          \A e \in db[table] : ~Involves(e, calls[p].account.id)

\* Delete has succeeded for an account that had, on both sides, follows,
\* follow requests, blocks, notifications, bookmarks and faves.
C1_Witness ==
    \E p \in Procs :
      /\ Succeeded(calls[p])
      /\ \A table \in { "follows", "followRequests", "blocks", "notifications",
                        "bookmarks", "faves" } :
           /\ \E e \in calls[p].before[table] : e.accountID = calls[p].account.id
           /\ \E e \in calls[p].before[table] : e.targetAccountID = calls[p].account.id

\* C2 as stated: when Delete returns success no status authored by the
\* account remains in the store.
C2_NoStatusLeft ==
    \A p \in Procs :
      Succeeded(calls[p]) =>
        \A s \in db.statuses : s.accountID # calls[p].account.id

\* C2 as the code has it: when Delete returns success the statuses table is
\* as it was when Delete was entered, and for every status authored by the
\* account exactly one "delete note" message, from and to the account, has
\* been handed to the dispatcher by this invocation.
C2_StatusesHandedOver ==
    \A p \in Procs :
      Succeeded(calls[p]) =>
        /\ db.statuses = calls[p].before.statuses
        /\ \A s \in db.statuses :
             s.accountID = calls[p].account.id =>
               Count(CallMsgs(calls[p]),
                     Msg("Note", "Delete", <<"statuses", s.id>>, s.accountID,
                         s.accountID)) = 1

\* Delete has succeeded for an account that owns statuses, a reblog among them.
C2_Witness ==
    \E p \in Procs :
      /\ Succeeded(calls[p])
      /\ \E s \in db.statuses : s.accountID = calls[p].account.id /\ s.boostOfID = 0
      /\ \E s \in db.statuses : s.accountID = calls[p].account.id /\ s.boostOfID # 0

\* The identity of an account row.
Identity(a) == [ id |-> a.id, username |-> a.username, domain |-> a.domain ]

\* Every profile field of the row is cleared and the suspension is recorded.
Stubbed(a, origin) ==
    /\ a.fetchedAt = never
    /\ a.avatarMediaAttachmentID = "" /\ a.avatarRemoteURL = ""
    /\ a.headerMediaAttachmentID = "" /\ a.headerRemoteURL = ""
    /\ a.displayName = "" /\ a.emojis = <<>> /\ a.fields = <<>>
    /\ a.note = "" /\ a.noteRaw = "" /\ a.memorial = FALSE
    /\ a.alsoKnownAs = "" /\ a.movedToAccountID = "" /\ a.reason = ""
    /\ a.discoverable = FALSE /\ a.statusContentType = "" /\ a.customCSS = ""
    /\ a.hideCollections = TRUE /\ a.enableRSS = FALSE
    /\ a.suspendedAt # never
    /\ a.suspensionOrigin = origin

\* C3: the account rows never shrink and every row keeps its id, username
\* and domain, whatever Delete and DeleteSelf calls have run; after a
\* successful Delete the stored row has every profile field cleared,
\* suspended-at set and the suspension origin equal to the origin argument.
C3_NeverHardDeleted ==
    /\ Cardinality(db.accounts) = Cardinality(AllAccounts)
    /\ { Identity(a) : a \in db.accounts } = { Identity(a) : a \in AllAccounts }
    /\ \A p \in Procs :
         Succeeded(calls[p]) => Stubbed(StoredAccount(calls[p]), calls[p].origin)

\* Delete has succeeded for an account with a filled profile, with an origin
\* that is not the account itself, after an earlier invocation had failed.
C3_Witness ==
    \E p \in Procs :
      /\ Succeeded(calls[p])
      /\ calls[p].origin = "DOMAINBLOCK"
      /\ \E a \in calls[p].before.accounts :
           a.id = calls[p].account.id /\ a.displayName = "name" /\ a.suspendedAt = never
      /\ \E i \in DOMAIN history : history[i].result = "internal"

\* An earlier invocation in the history (the last entry is the latest return).
Earlier == 1 .. (Len(history) - 1)

\* No row of `before` is missing from the store (account and user rows are
\* compared by id: they are updated in place).
NoRowRemoved(before) ==
    /\ \A table \in { "tokens", "clients", "applications", "follows",
                      "followRequests", "blocks", "statuses", "notifications",
                      "bookmarks", "faves" } : before[table] \subseteq db[table]
    /\ { a.id : a \in before.accounts } \subseteq { a.id : a \in db.accounts }
    /\ { u.id : u \in before.users } \subseteq { u.id : u \in db.users }

\* C4 as stated: a Delete of an account whose earlier Delete succeeded
\* returns success again and removes no row (no store call has failed).
C4_ReDeleteSucceeds ==
    \A p \in Procs :
      ( /\ Returns(calls[p])
        /\ faults = 0
        /\ \E i \in Earlier :
             /\ history[i].op = "Delete"
             /\ history[i].account = calls[p].account.id
             /\ history[i].result = "ok" )
      => /\ calls[p].result = "ok"
         /\ NoRowRemoved(calls[p].before)

\* C5 as stated: after a Delete that a store failure aborted, a later Delete
\* of the same account during which the store does not fail returns success.
C5_RetrySucceeds ==
    \A p \in Procs :
      ( /\ Returns(calls[p])
        /\ calls[p].fault = ""
        /\ \E i \in Earlier :
             /\ history[i].op = "Delete"
             /\ history[i].account = calls[p].account.id
             /\ history[i].result = "internal"
             /\ history[i].err = "ErrOther" )
      => calls[p].result = "ok"

\* The "undo follow" messages among msgs for the edge with this uri.
UndoFollows(msgs, uri) ==
    { i \in DOMAIN msgs : msgs[i].APObjectType = "Follow" /\ msgs[i].GTSModel = uri }

\* C6: a successful Delete of a local account hands the dispatcher exactly
\* one "undo follow" message for each of its follows of a remote account,
\* with the deleted account as origin and the remote account as target; a
\* Delete of a remote account hands it no follow message at all.
C6_UndoFollowEvents ==
    \A p \in Procs :
      Succeeded(calls[p]) =>
        LET c == calls[p]
            msgs == CallMsgs(c)
        IN  IF IsLocal(c.account)
            THEN \A f \in c.before.follows :
                   ( /\ f.accountID = c.account.id
                     /\ \E t \in c.before.accounts :
                          t.id = f.targetAccountID /\ ~IsLocal(t) )
                   => /\ Cardinality(UndoFollows(msgs, <<"follows", f.id>>)) = 1
                      /\ \A i \in UndoFollows(msgs, <<"follows", f.id>>) :
                           msgs[i] = Msg("Follow", "Undo", <<"follows", f.id>>,
                                         c.account.id, f.targetAccountID)
            ELSE \A i \in DOMAIN msgs : msgs[i].APObjectType # "Follow"

\* Delete has succeeded for a local account that followed a remote account,
\* after a Delete of a remote account with follows and follow requests of its
\* own had succeeded.
C6_Witness ==
    \E p \in Procs :
      /\ Succeeded(calls[p])
      /\ IsLocal(calls[p].account)
      /\ \E f \in calls[p].before.follows :
           f.accountID = calls[p].account.id /\ f.targetAccountID = "R2"
      /\ \E i \in Earlier :
           /\ history[i].op = "Delete" /\ history[i].result = "ok"
           /\ history[i].account = "R1"
      /\ Len(queue) = 4

\* C8: DeleteSelf returns success having handed the dispatcher exactly one
\* batch of exactly one "delete actor" message, from and to the account, and
\* having neither read nor written the store.
C8_DeleteSelfEnqueues ==
    \A p \in Procs :
      (calls[p].op = "DeleteSelf" /\ calls[p].pc = "done") =>
        /\ calls[p].result = "ok"
        /\ db = calls[p].before
        /\ calls[p].log = <<>>
        /\ CallBatches(calls[p]) =
             << << Msg("Person", "Delete", <<>>, calls[p].account.id,
                       calls[p].account.id) >> >>

\* DeleteSelf has returned for an account with follows and statuses, which
\* are all still stored.
C8_Witness ==
    \E p \in Procs :
      /\ calls[p].op = "DeleteSelf" /\ calls[p].pc = "done"
      /\ \E f \in db.follows : f.accountID = calls[p].account.id
      /\ \E s \in db.statuses : s.accountID = calls[p].account.id

\* The cascade step that writes a table (statuses are only read, by step 4).
TableStep(table) ==
    CASE table \in { "users", "tokens", "clients", "applications" } -> StepUser
      [] table \in { "follows", "followRequests" } -> StepFollows
      [] table = "blocks" -> StepBlocks
      [] table = "statuses" -> StepStatuses
      [] table = "notifications" -> StepNotifications
      [] table \in { "bookmarks", "faves" } -> StepPeripheral
      [] table = "accounts" -> StepAccount

\* The invocation met a store failure other than "no matching rows".
Failed(c) == c.op = "Delete" /\ c.fault # ""

\* What the steps before k do to the store is there.
StepsBeforeDone(c, k) ==
    /\ (k > StepUser /\ IsLocal(c.account)) =>
         /\ GetTokensWhereUserID(c.user.id) = {}
         /\ \A u \in GetUserByAccountID(c.account.id) :
              u.signInCount = 1 /\ u.encryptedPassword # <<"bcrypt", 0>>
    /\ k > StepFollows =>
         /\ \A f \in db.follows : ~Involves(f, c.account.id)
         /\ \A f \in db.followRequests : ~Involves(f, c.account.id)
    /\ k > StepBlocks => AccountBlocks(c.account.id) = {}
    /\ k > StepNotifications =>
         \A n \in db.notifications : ~Involves(n, c.account.id)
    /\ k > StepPeripheral =>
         \A e \in db.bookmarks \cup db.faves : ~Involves(e, c.account.id)

\* C9: once a store call of step k has failed with an error other than "no
\* matching rows", Delete has returned an internal error for step k; no store
\* access or dispatch of a later step has happened, the tables of the later
\* steps and the account row are as they were when Delete was entered, only
\* the batches of the steps before k were dispatched, and what the steps
\* before k did to the store is still there.
C9_FailureAborts ==
    \A p \in Procs :
      Failed(calls[p]) =>
        LET c == calls[p]
            k == StepOf(c.fault)
        IN  /\ c.pc = "done" /\ c.result = "internal"
            /\ c.err = "ErrOther" /\ c.errStep = k
            /\ \A i \in DOMAIN c.log : c.log[i].step <= k
            /\ \A table \in DOMAIN db :
                 TableStep(table) > k => db[table] = c.before[table]
            /\ db.accounts = c.before.accounts
            /\ Len(CallBatches(c)) = (IF k > StepFollows THEN 1 ELSE 0)
                                     + (IF k > StepStatuses THEN 1 ELSE 0)
            /\ StepsBeforeDone(c, k)

\* Delete of a local account with tokens, follows and statuses has failed in
\* the peripheral step: the rows of the earlier steps are gone, both batches
\* went out, bookmarks or faves of the account are still stored.
C9_Witness ==
    \E p \in Procs :
      /\ Failed(calls[p]) /\ calls[p].pc = "done"
      /\ StepOf(calls[p].fault) = StepPeripheral
      /\ IsLocal(calls[p].account)
      /\ \E t \in calls[p].before.tokens : t.userID = calls[p].user.id
      /\ \E f \in calls[p].before.follows : Involves(f, calls[p].account.id)
      /\ Len(CallMsgs(calls[p])) > 2
      /\ \E e \in db.bookmarks \cup db.faves : Involves(e, calls[p].account.id)
      /\ db.tokens # calls[p].before.tokens

\* The steps an invocation's trace has entries of.
StepsSeen(c) == { c.log[i].step : i \in DOMAIN c.log }

\* The first cascade step of an account: the user step is for local accounts.
FirstStep(account) == IF IsLocal(account) THEN StepUser ELSE StepFollows

\* C10: at every point of every Delete the store accesses and dispatches so
\* far are in step order 1..7: the steps entered are the first ones without a
\* gap (from step 1 for a local account, from step 2 otherwise), no access of
\* a later step precedes one of an earlier step, every write is made by the
\* step that owns its table, the event batches belong to steps 2 and 4 and
\* close them, the user stub write follows all token, client and application
\* writes, and a non-local account has no access to users, tokens, clients or
\* applications. On success all steps up to 7 have run.
C10_StepOrder ==
    \A p \in Procs :
      calls[p].op = "Delete" =>
        LET c == calls[p]
            log == c.log
        IN  /\ \A i, j \in DOMAIN log : i < j => log[i].step <= log[j].step
            /\ \E m \in 0 .. StepAccount :
                 StepsSeen(c) = { k \in FirstStep(c.account) .. StepAccount : k <= m }
            /\ \A i \in DOMAIN log :
                 /\ log[i].kind = "write" => log[i].step = TableStep(log[i].table)
                 /\ log[i].kind = "dispatch" =>
                      /\ log[i].step \in { StepFollows, StepStatuses }
                      /\ \A j \in DOMAIN log : j > i => log[j].step > log[i].step
                 /\ (log[i].kind = "write" /\ log[i].table = "users") =>
                      \A j \in DOMAIN log :
                        j > i => log[j].table \notin { "tokens", "clients",
                                                       "applications" }
            /\ ~IsLocal(c.account) =>
                 /\ \A i \in DOMAIN log :
                      log[i].table \notin { "users", "tokens", "clients",
                                            "applications" }
                 /\ \A table \in { "users", "tokens", "clients", "applications" } :
                      db[table] = c.before[table]
            /\ Succeeded(c) =>
                 /\ StepsSeen(c) = FirstStep(c.account) .. StepAccount
                 /\ log[Len(log)] = Entry(StepAccount, "write", "accounts",
                                          c.account.id)

\* Delete of a local account has succeeded with writes in every step: tokens
\* and the user, follows, blocks, notifications, bookmarks, the account, and
\* two batches that are not empty.
C10_Witness ==
    \E p \in Procs :
      /\ Succeeded(calls[p]) /\ IsLocal(calls[p].account)
      /\ \A table \in { "tokens", "clients", "applications", "users", "follows",
                        "followRequests", "blocks", "notifications",
                        "bookmarks", "faves", "accounts" } :
           \E i \in DOMAIN calls[p].log :
             calls[p].log[i].kind = "write" /\ calls[p].log[i].table = table
      /\ Len(CallBatches(calls[p])) = 2
      /\ \A i \in 1 .. 2 : CallBatches(calls[p])[i] # <<>>
      /\ db.tokens # calls[p].before.tokens
      /\ db.blocks # calls[p].before.blocks

\* The statuses the account owned when Delete was entered.
Owned(c) == { s \in c.before.statuses : s.accountID = c.account.id }

\* The stored reblogs of those statuses.
Reblogs(c) == { b \in c.before.statuses : \E s \in Owned(c) : b.boostOfID = s.id }

\* The reblogs whose booster has an account row.
ReblogsWithBooster(c) ==
    { b \in Reblogs(c) : \E a \in c.before.accounts : a.id = b.accountID }

\* The "undo announce" message of a reblog of a status of the account.
UndoAnnounce(b, c) ==
    Msg("Announce", "Undo", <<"statuses", b.boostOfID>>, b.accountID, c.account.id)

\* The batch of the status step (the second batch of the invocation).
StatusBatch(c) == CallBatches(c)[2]

\* The messages of the batch with the given activity.
OfActivity(batch, activity) ==
    { i \in DOMAIN batch : batch[i].APActivityType = activity }

\* ceil(n / deleteSelectLimit)
PagesFor(n) == (n + deleteSelectLimit - 1) \div deleteSelectLimit

\* C7 as stated: a successful Delete of an account owning N statuses has
\* fetched ceil(N/50) pages, dispatched N "delete note" messages, one per
\* status, and one "undo announce" message per stored reblog of them.
C7_UndoPerReblog ==
    \A p \in Procs :
      Succeeded(calls[p]) =>
        LET c == calls[p]
            batch == StatusBatch(c)
        IN  /\ c.pages = PagesFor(Cardinality(Owned(c)))
            /\ Cardinality(OfActivity(batch, "Delete")) = Cardinality(Owned(c))
            /\ \A s \in Owned(c) : Count(batch, DeleteNote(s, c.account)) = 1
            /\ Cardinality(OfActivity(batch, "Undo")) = Cardinality(Reblogs(c))
            /\ \A b \in Reblogs(c) : Count(batch, UndoAnnounce(b, c)) = 1

\* C7, amended: no page in work has more than 50 statuses and no more than
\* ceil(N/50) pages are fetched; a successful Delete of an account owning N
\* statuses has fetched exactly ceil(N/50) pages with statuses and one empty
\* page after them, and its status batch holds exactly N "delete note"
\* messages, one per status, and one "undo announce" message per stored
\* reblog of them whose booster has an account row, and none for a reblog
\* whose booster has none.
C7_PagedScan ==
    \A p \in Procs :
      calls[p].op = "Delete" =>
        LET c == calls[p]
            batch == StatusBatch(c)
        IN  /\ Len(c.rows) <= deleteSelectLimit
            /\ c.pages <= PagesFor(Cardinality(Owned(c)))
            /\ Succeeded(c) =>
                 /\ c.pages = PagesFor(Cardinality(Owned(c)))
                 /\ c.queries = c.pages + 1
                 /\ Cardinality(OfActivity(batch, "Delete")) = Cardinality(Owned(c))
                 /\ \A s \in Owned(c) : Count(batch, DeleteNote(s, c.account)) = 1
                 /\ Cardinality(OfActivity(batch, "Undo"))
                      = Cardinality(ReblogsWithBooster(c))
                 /\ \A b \in Reblogs(c) :
                      Count(batch, UndoAnnounce(b, c))
                        = IF b \in ReblogsWithBooster(c) THEN 1 ELSE 0
                 /\ Len(batch) = Cardinality(Owned(c))
                                  + Cardinality(ReblogsWithBooster(c))

\* Delete has succeeded for an account that owned more than two full pages
\* of statuses, in three pages, with reblogs of them stored, one of them by
\* an account that has no row.
C7_Witness ==
    \E p \in Procs :
      /\ Succeeded(calls[p])
      /\ Cardinality(Owned(calls[p])) > 2 * deleteSelectLimit
      /\ calls[p].pages = 3
      /\ ReblogsWithBooster(calls[p]) # {}
      /\ Reblogs(calls[p]) # ReblogsWithBooster(calls[p])

\* The threads that are running a store query for the key, or hold its
\* result without having returned it.
Fetching(key) ==
    { t \in MediaThreads : thr[t].pc \in {"query", "loaded"} /\ thr[t].key = key }

\* A GetAttachmentByID call that has returned.
GetReturned(t) == thr[t].op = "GetAttachmentByID" /\ thr[t].pc = "done"

\* C11: at no time do two GetAttachmentByID calls fetch the same key from the
\* store; a call that found the key missing while a fetch was in flight
\* waits for that fetch, issues no query of its own and returns what the
\* fetching call returns; the fetching call issues exactly one query.
C11_SingleFlight ==
    /\ \A key \in CacheKeys : Cardinality(Fetching(key)) <= 1
    /\ \A t \in MediaThreads :
         thr[t].pc = "joined" =>
           \E u \in Fetching(thr[t].key) : thr[u].callNo = thr[t].leaderCall
    /\ \A t \in MediaThreads :
         GetReturned(t) =>
           /\ thr[t].queries = (IF thr[t].source = "query" THEN 1 ELSE 0)
           /\ thr[t].source = "joined" =>
                \A u \in MediaThreads :
                  thr[u].callNo = thr[t].leaderCall =>
                    /\ thr[u].pc = "done" /\ thr[u].source = "query"
                    /\ thr[u].value = thr[t].value /\ thr[u].err = thr[t].err

\* Three GetAttachmentByID calls for the same id have returned the stored
\* row: one of them fetched it with one query, the two others joined that
\* fetch.
C11_Witness ==
    \E t \in MediaThreads :
      /\ GetReturned(t) /\ thr[t].source = "query" /\ thr[t].queries = 1
      /\ thr[t].value # NoAttachment
      /\ \A u \in MediaThreads \ {t} :
           /\ GetReturned(u) /\ thr[u].source = "joined"
           /\ thr[u].leaderCall = thr[t].callNo /\ thr[u].queries = 0
           /\ thr[u].value = thr[t].value

\* The call of thread t is a GetAttachmentByID entered in the step right
\* after a PutAttachment or UpdateAttachment of the same id returned success.
RightAfterStore(t) ==
    /\ thr[t].op = "GetAttachmentByID"
    /\ thr[t].prev.kind = "stored"
    /\ thr[t].prev.value.id = thr[t].id

\* C12: a GetAttachmentByID entered right after a successful PutAttachment
\* or UpdateAttachment of the same id has returned at once, with the value
\* that call stored, from the cache and without a store query.
C12_StoreThenLoad ==
    \A t \in MediaThreads :
      RightAfterStore(t) =>
        /\ thr[t].pc = "done" /\ thr[t].err = "nil"
        /\ thr[t].value = thr[t].prev.value
        /\ thr[t].source = "hit" /\ thr[t].queries = 0

\* Such a call has returned the attachment an UpdateAttachment by column had
\* just stored, stamped with its update time, which is not the row the table
\* holds.
C12_Witness ==
    \E t \in MediaThreads :
      /\ RightAfterStore(t) /\ thr[t].pc = "done"
      /\ thr[t].value =
           [ UpdateInput(thr[t].id) EXCEPT !.updatedAt = thr[t].callNo - 1 ]
      /\ attachments[thr[t].id] # NoAttachment
      /\ attachments[thr[t].id] # thr[t].value

\* The call of thread t returns an error in this step.
ReturnsError(t) ==
    /\ thr[t].pc # "done" /\ thr'[t].pc = "done"
    /\ thr'[t].err # "nil"

\* C13: a step in which a GetAttachmentByID, PutAttachment or
\* UpdateAttachment call returns an error leaves the cache as it is, and the
\* error is the one of the call's store operation (of the fetch it joined,
\* for a joiner); the cache entry of a key changes only in the closing step
\* of a call whose store operation on that key succeeded, to the value that
\* operation loaded or persisted.
C13_FailureKeepsCache ==
    [][ /\ \A t \in MediaThreads :
             ReturnsError(t) =>
               /\ cache' = cache
               /\ thr'[t].source # "joined" => thr'[t].err = thr'[t].storeErr
               /\ thr'[t].op = "GetAttachmentByID" => thr'[t].value = NoAttachment
        /\ \A key \in CacheKeys :
             cache'[key] # cache[key] =>
               \E t \in MediaThreads :
                 /\ thr[t].key = key /\ thr[t].storeErr = "nil"
                 /\ thr'[t].pc = "done" /\ thr'[t].err = "nil"
                 /\ \/ thr[t].pc = "loaded" /\ cache'[key] = thr[t].value
                    \/ thr[t].pc = "stored" /\ cache'[key] = thr[t].media
      ]_vars

\* A PutAttachment has failed because the row exists and a GetAttachmentByID
\* because the store failed; the row is there and nothing is cached for it.
C13_Witness ==
    \E t, u \in MediaThreads :
      /\ thr[t].op = "PutAttachment" /\ thr[t].pc = "done"
      /\ thr[t].err = "ErrAlreadyExists"
      /\ thr[u].op = "GetAttachmentByID" /\ thr[u].pc = "done"
      /\ thr[u].err = "ErrOther" /\ thr[u].id = thr[t].id
      /\ attachments[thr[t].id] # NoAttachment
      /\ cache[thr[t].key] = NoAttachment

\* A GetAttachmentsByIDs call that has returned.
BatchReturned(t) == thr[t].op = "GetAttachmentsByIDs" /\ thr[t].pc = "done"

\* The lookup succeeded.
OkResult(r) == r.err = "nil"

\* The attachments of the lookups that succeeded, in their order.
Found(results) ==
    LET ok == SelectSeq(results, OkResult)
    IN  [ i \in 1 .. Len(ok) |-> ok[i].value ]

\* C14: GetAttachmentsByIDs(ids) returns a nil error whatever the lookups
\* did; every id of the list was looked up, in order, also after a lookup
\* that failed; the list returned holds exactly the attachments of the
\* lookups that succeeded, in that order, each the row of its id, and is
\* never longer than ids; a lookup fails only for an id without a row or on
\* a store failure.
C14_BestEffort ==
    \A t \in MediaThreads :
      BatchReturned(t) =>
        LET c == thr[t]
        IN  /\ c.err = "nil"
            /\ Len(c.results) = Len(c.ids)
            /\ \A i \in DOMAIN c.ids : c.results[i].id = c.ids[i]
            /\ c.out = Found(c.results)
            /\ Len(c.out) <= Len(c.ids)
            /\ \A i \in DOMAIN c.ids :
                 IF c.results[i].err = "nil"
                 THEN c.results[i].value = attachments[c.ids[i]]
                 ELSE \/ attachments[c.ids[i]] = NoAttachment
                      \/ c.results[i].err = "ErrOther"

\* A list of three ids has been read: the first is found, the second has no
\* row, the third is found; two attachments are returned.
C14_Witness ==
    \E t \in MediaThreads :
      /\ BatchReturned(t) /\ Len(thr[t].ids) = 3
      /\ thr[t].results[1].err = "nil"
      /\ thr[t].results[2].err = "ErrNoEntries"
      /\ thr[t].results[3].err = "nil"
      /\ Len(thr[t].out) = 2
      /\ thr[t].out[2].id = thr[t].ids[3]

\* C15 as stated: DeleteAttachment invalidates the cache entry only with the
\* row already deleted, and a GetAttachmentByID(id) entered after a
\* DeleteAttachment(id) has returned success does not return an attachment
\* (no call of these behaviours creates the row again).
C15_NoStaleAfterDelete ==
    \A t \in MediaThreads :
      /\ thr[t].pc = "invalidate" => attachments[thr[t].id] = NoAttachment
      /\ (GetReturned(t) /\ thr[t].id \in thr[t].afterDelete) =>
           thr[t].value = NoAttachment

\* No repository call is in progress.
Quiescent == \A t \in MediaThreads : thr[t].pc \in {"idle", "done"}

\* C16 as stated, for the ids that have a row: whenever no call is in
\* progress, an attachment cached for such an id is the row the table holds
\* for it.
C16_CacheConsistent ==
    Quiescent =>
      \A id \in MediaIDs :
        (cache[<<"ID", id>>] # NoAttachment /\ attachments[id] # NoAttachment) =>
          cache[<<"ID", id>>] = attachments[id]

\* ------------------------------------------------------- the stubbed user

\* The user row of the invocation as it was when the invocation began.
UserBefore(c) == { u \in c.before.users : u.id = c.user.id }

\* C17: when stubbifyUser has succeeded the user's password hash differs from
\* the hash it had before, its email is unchanged and its sign-in count is 1;
\* after a successful Delete of a local account the stored user row does not
\* have the hash it had before the call (and still has its email).
C17_UserStubbed ==
    \A p \in Procs :
      LET c == calls[p]
      IN  /\ (c.op = "Delete" /\ c.pc = "updateUser") =>
                \A b \in UserBefore(c) :
                  /\ c.user.encryptedPassword # b.encryptedPassword
                  /\ c.user.email = b.email
                  /\ c.user.signInCount = 1
          /\ (Succeeded(c) /\ IsLocal(c.account)) =>
                /\ GetUserByAccountID(c.account.id) # {}
                /\ \A u \in GetUserByAccountID(c.account.id) :
                     \A b \in UserBefore(c) :
                       /\ u.encryptedPassword # b.encryptedPassword
                       /\ u.email = b.email
                       /\ u.signInCount = 1

\* A second successful Delete of a local account: its user row, stubbed by the
\* first one, has got yet another hash.
C17_Witness ==
    \E p \in Procs :
      /\ Succeeded(calls[p]) /\ IsLocal(calls[p].account)
      /\ \E b \in UserBefore(calls[p]) :
           /\ b.encryptedPassword # <<"bcrypt", 0>>
           /\ \E u \in GetUserByAccountID(calls[p].account.id) :
                u.id = b.id /\ u.encryptedPassword # b.encryptedPassword

\* ------------------------------------------------ administrative entry points

\* C18: MediaPrune rejects a negative argument with a bad request without
\* calling PruneAll; for any other argument it returns success whatever
\* PruneAll comes to: the caller does not receive PruneAll's outcome.
C18_PruneDetached ==
    \A a \in AdminCallers :
      LET c == admin.calls[a]
      IN  (c.op = "MediaPrune" /\ c.pc = "done") =>
            IF c.days < 0
            THEN c.result = "badRequest" /\ c.job = 0
            ELSE c.result = "ok"

\* ------------------------------------------------- side effects of unfollows

\* The edge f, as it was when the invocation began, leaves the deleted
\* account for an account that is present and remote.
ToRemote(c, f) ==
    /\ f.accountID = c.account.id
    /\ \E t \in c.before.accounts : t.id = f.targetAccountID /\ ~IsLocal(t)

\* C19: a Delete of a local account yields one "undo follow" message for an
\* outgoing follow or follow request (the latter under the request's own
\* uri and parties) exactly when the target account is present and remote,
\* and none for an edge whose target is missing or local, nor for an incoming
\* edge; a Delete of a remote account yields none; and the follow step fails
\* for no other reason than a store failure.
C19_UnfollowSideEffects ==
    \A p \in Procs :
      LET c == calls[p]
          msgs == CallMsgs(c)
      IN  /\ Succeeded(c) =>
                \A table \in {"follows", "followRequests"} :
                  \A f \in c.before[table] :
                    LET uri == <<table, f.id>>
                    IN  IF IsLocal(c.account) /\ ToRemote(c, f)
                        THEN /\ Cardinality(UndoFollows(msgs, uri)) = 1
                             /\ \A i \in UndoFollows(msgs, uri) :
                                  msgs[i] = Msg("Follow", "Undo", uri, c.account.id,
                                                f.targetAccountID)
                        ELSE UndoFollows(msgs, uri) = {}
          /\ (Returns(c) /\ c.errStep = StepFollows) => c.err = "ErrOther"

\* Delete has succeeded for a local account that had a follow of a missing
\* account, a follow of a local account, an incoming follow, and a follow
\* request to a remote account, for which the undo message was handed over.
C19_Witness ==
    \E p \in Procs :
      LET c == calls[p]
      IN  /\ Succeeded(c) /\ IsLocal(c.account)
          /\ \E f \in c.before.follows :
               f.accountID = c.account.id /\ f.targetAccountID = "X0"
          /\ \E f \in c.before.follows :
               f.accountID = c.account.id /\ f.targetAccountID = "L2"
          /\ \E f \in c.before.follows : f.targetAccountID = c.account.id
          /\ \E f \in c.before.followRequests :
               /\ ToRemote(c, f)
               /\ UndoFollows(CallMsgs(c), <<"followRequests", f.id>>) # {}

\* --------------------------------------------------- one batch for each step

\* The positions of the invocation's trace at which step k handed a batch to
\* the dispatcher.
Dispatches(c, k) ==
    { i \in DOMAIN c.log : c.log[i].step = k /\ c.log[i].kind = "dispatch" }

\* The follows and follow requests the invocation has deleted for which an
\* "undo follow" is due, in the order it deleted them.
UndoDue(c) ==
    LET Due(e) == /\ e.step = StepFollows /\ e.kind = "write"
                  /\ IsLocal(c.account)
                  /\ \E f \in c.before[e.table] : f.id = e.key /\ ToRemote(c, f)
    IN  SelectSeq(c.log, Due)

\* The batches of an invocation that came to step k: those of the dispatching
\* steps before k.
BatchesBefore(k) ==
    IF k <= StepFollows THEN 0 ELSE IF k <= StepStatuses THEN 1 ELSE 2

\* C20: the follow step and the status step each hand the dispatcher one
\* batch at most, as the last thing they do; the batch of the follow step
\* holds the "undo follow" messages in the order the edges were deleted,
\* follows before follow requests; a step that fails hands over nothing; and
\* no "undo follow" is ever dispatched, by a retry either, for an edge that a
\* failed follow step had deleted: such edges stay deleted.
C20_BatchPerStep ==
    /\ \A p \in Procs :
         LET c == calls[p]
         IN  c.op = "Delete" =>
               /\ \A k \in {StepFollows, StepStatuses} :
                    /\ Cardinality(Dispatches(c, k)) <= 1
                    /\ \A i \in Dispatches(c, k) :
                         \A j \in DOMAIN c.log : c.log[j].step = k => j <= i
                    /\ Succeeded(c) => Cardinality(Dispatches(c, k)) = 1
               /\ \A k \in 1..StepAccount : Dispatches(c, k) # {} =>
                    k \in {StepFollows, StepStatuses}
               /\ (Returns(c) /\ c.errStep # 0) =>
                    /\ Dispatches(c, c.errStep) = {}
                    /\ Len(CallBatches(c)) = BatchesBefore(c.errStep)
               /\ Len(CallBatches(c)) >= 1 =>
                    /\ Len(CallBatches(c)[1]) = Len(UndoDue(c))
                    /\ \A i \in DOMAIN UndoDue(c) :
                         /\ CallBatches(c)[1][i].APObjectType = "Follow"
                         /\ CallBatches(c)[1][i].GTSModel =
                              <<UndoDue(c)[i].table, UndoDue(c)[i].key>>
                    /\ \A i, j \in DOMAIN UndoDue(c) :
                         ( /\ UndoDue(c)[i].table = "followRequests"
                           /\ UndoDue(c)[j].table = "follows" ) => j < i
    /\ \A i \in DOMAIN history :
         \A uri \in history[i].lost :
           /\ \A f \in db[uri[1]] : f.id # uri[2]
           /\ UndoFollows(Flatten(queue), uri) = {}

\* A Delete of a local account failed in its follow step after it had deleted
\* its follow 1, of the remote account R1; the retry has succeeded, its follow
\* batch holding two messages at least.
C20_Witness ==
    \E p \in Procs :
      /\ Succeeded(calls[p])
      /\ Len(CallBatches(calls[p])[1]) >= 2
      /\ \E i \in Earlier :
           /\ history[i].account = calls[p].account.id
           /\ history[i].errStep = StepFollows
           /\ <<"follows", 1>> \in history[i].lost

\* ------------------------------------------------------ reblogs in the scan

\* The "undo announce" messages among msgs.
Announces(msgs) == { i \in DOMAIN msgs : msgs[i].APObjectType = "Announce" }

\* C21: in the status scan a reblog whose booster account does not exist is
\* skipped and the scan goes on; a failed fetch of a booster account for any
\* other reason aborts the cascade in the status step; every other reblog of
\* a scanned status gets exactly one "undo announce" message, from the
\* booster to the deleted account, so that a successful Delete has dispatched
\* as many of them as there are reblogs whose booster account exists.
C21_UndoAnnouncePerBooster ==
    \A p \in Procs :
      LET c == calls[p]
      IN  c.op = "Delete" =>
            /\ \A i \in Announces(c.msgs) :
                 /\ \E b \in ReblogsWithBooster(c) : c.msgs[i] = UndoAnnounce(b, c)
                 /\ \A j \in Announces(c.msgs) : c.msgs[j] = c.msgs[i] => j = i
            /\ (Returns(c) /\ c.errAt = "GetAccountByID") =>
                 /\ c.err = "ErrOther" /\ c.result = "internal"
                 /\ c.errStep = StepStatuses
                 /\ Len(CallBatches(c)) = 1
            /\ Succeeded(c) =>
                 /\ \A b \in Reblogs(c) :
                      Count(StatusBatch(c), UndoAnnounce(b, c)) =
                        IF b \in ReblogsWithBooster(c) THEN 1 ELSE 0
                 /\ Cardinality(Announces(StatusBatch(c))) =
                      Cardinality(ReblogsWithBooster(c))
                 /\ Announces(CallBatches(c)[1]) = {}

\* Delete of L1 has succeeded: its status 1 had the reblog 3 by R1, announced
\* as undone, and the reblog 4 by an account that does not exist, skipped.
C21_Witness ==
    \E p \in Procs :
      LET c == calls[p]
      IN  /\ Succeeded(c) /\ c.account.id = "L1"
          /\ Status(4, "X0", 1) \in Reblogs(c) \ ReblogsWithBooster(c)
          /\ Count(StatusBatch(c), UndoAnnounce(Status(3, "R1", 1), c)) = 1
          /\ Cardinality(Announces(StatusBatch(c))) = 1

\* ------------------------------------------------- a failure of stubbifyUser

\* Delete has returned the error of stubbifyUser.
StubFailed(c) == Returns(c) /\ c.errAt = "stubbifyUser"

\* The failure is fatal and leaves the user value untouched: Delete returns
\* an internal error of the user step, no later step has touched the store or
\* the dispatcher, and no token of the user remains.
StubFailureAborts(c) ==
    /\ c.result = "internal" /\ c.errStep = StepUser
    /\ c.user \in c.before.users
    /\ \A i \in DOMAIN c.log : c.log[i].step = StepUser
    /\ \A table \in DOMAIN db : TableStep(table) > StepUser =>
         db[table] = c.before[table]
    /\ CallBatches(c) = <<>>
    /\ GetTokensWhereUserID(c.user.id) = {}

\* C22: when stubbifyUser fails it has changed no field of the user, Delete
\* returns an internal error before any later step runs, no token of the user
\* remains, and the stored user row no longer has the password hash it had
\* when Delete began.
C22_StubFailureNotLive ==
    \A p \in Procs :
      LET c == calls[p]
      IN  StubFailed(c) =>
            /\ StubFailureAborts(c)
            /\ \A u \in GetUserByAccountID(c.account.id) :
                 \A b \in UserBefore(c) :
                   u.encryptedPassword # b.encryptedPassword

\* ------------------------------------------------- the step named in an error

\* The function that carries out a cascade step.
StepFunction(k) ==
    CASE k = StepUser -> "deleteUserAndTokensForAccount"
      [] k = StepFollows -> "deleteAccountFollows"
      [] k = StepBlocks -> "deleteAccountBlocks"
      [] k = StepStatuses -> "deleteAccountStatuses"
      [] k = StepNotifications -> "deleteAccountNotifications"
      [] k = StepPeripheral -> "deleteAccountPeripheral"
      [] OTHER -> ""

\* C23: the error Delete returns after a store failure in one of the steps
\* user/tokens, follows, blocks, statuses, notifications, bookmarks/faves is
\* wrapped with the name of that step.
C23_ErrorNamesStep ==
    \A p \in Procs :
      LET c == calls[p]
      IN  (Returns(c) /\ c.fault # "" /\ c.errStep \in StepUser..StepPeripheral) =>
            c.errPrefix = StepFunction(c.errStep)

\* -------------------------------------------- Delete of two accounts at once

\* The rows of S that have none of the accounts on either side.
Apart(S, id) == { e \in S : e.accountID # id /\ e.targetAccountID # id }

\* The store a Delete of account a, running alone on `store`, leaves behind.
StoreAfter(store, a) ==
    LET users == { u \in store.users : u.accountID = a.id /\ IsLocal(a) }
        gone == { t \in store.tokens : \E u \in users : t.userID = u.id }
        clients == { t.clientID : t \in gone }
    IN  [ store EXCEPT
            !.users = (@ \ users) \cup { stubbifyUser(u, 1) : u \in users },
            !.tokens = @ \ gone,
            !.clients = @ \ clients,
            !.applications = { x \in @ : x.clientID \notin clients },
            !.follows = Apart(@, a.id), !.followRequests = Apart(@, a.id),
            !.blocks = Apart(@, a.id), !.notifications = Apart(@, a.id),
            !.bookmarks = Apart(@, a.id), !.faves = Apart(@, a.id),
            !.accounts = { IF x.id = a.id THEN stubbifyAccount(x, a.id, 1) ELSE x :
                             x \in @ } ]

\* The messages a Delete of account a, running alone on `store`, dispatches.
EventsAfter(store, a) ==
    LET remote == { t.id : t \in { x \in store.accounts : ~IsLocal(x) } }
        Undone(table) ==
          { Msg("Follow", "Undo", <<table, f.id>>, a.id, f.targetAccountID) :
              f \in { e \in store[table] :
                        /\ IsLocal(a) /\ e.accountID = a.id
                        /\ e.targetAccountID \in remote } }
        owned == { st \in store.statuses : st.accountID = a.id }
    IN  Undone("follows") \cup Undone("followRequests")
        \cup { DeleteNote(st, a) : st \in owned }
        \cup { Msg("Announce", "Undo", <<"statuses", b.boostOfID>>, b.accountID, a.id) :
                 b \in { r \in store.statuses :
                           /\ \E st \in owned : r.boostOfID = st.id
                           /\ \E x \in store.accounts : x.id = r.accountID } }

\* A store without the time of a suspension and the value of a stub's
\* password hash, which differ from one run to another.
Timeless(store) ==
    [ store EXCEPT
        !.accounts = { [ x EXCEPT !.suspendedAt = IF @ = never THEN 0 ELSE 1 ] :
                         x \in @ },
        !.users = { [ u EXCEPT !.encryptedPassword =
                                 IF @ = <<"bcrypt", 0>> THEN @ ELSE <<"bcrypt", 1>> ] :
                      u \in @ } ]

\* Store and messages are those of Delete(a) followed by Delete(b), starting
\* from the store `first`.
AsIfInOrder(first, a, b) ==
    LET events == EventsAfter(first, a) \cup EventsAfter(StoreAfter(first, a), b)
        msgs == Flatten(queue)
    IN  /\ Timeless(db) = Timeless(StoreAfter(StoreAfter(first, a), b))
        /\ { msgs[i] : i \in DOMAIN msgs } = events
        /\ Len(msgs) = Cardinality(events)

\* C24: when Delete calls for two different accounts, connected by edges of
\* every kind, have both returned after any interleaving of their steps, both
\* have succeeded, and the store and the dispatched messages are those of
\* running the two calls one after the other in one of the two orders.
C24_AsIfSequential ==
    (\A p \in Procs : Returns(calls[p])) =>
      /\ \A p \in Procs : calls[p].result = "ok"
      /\ \E p, q \in Procs :
           /\ p # q
           /\ AsIfInOrder(ConnectedStore, calls[p].account, calls[q].account)

\* ------------------------------------------------ the status scan terminates

\* The invocation is in its status scan.
InScan(c) == c.op = "Delete" /\ c.pc \in {"getAccountStatuses", "processStatus"}

\* The statuses whose "delete note" the invocation has collected.
Scanned(c) ==
    { s \in Owned(c) : \E i \in DOMAIN c.msgs : c.msgs[i] = DeleteNote(s, c.account) }

\* The state of a scan: the store has the statuses it had; the page in work
\* is in descending order and ends at the cursor; the statuses scanned so far
\* are exactly those past the rest of the page (past the cursor, when the
\* page is done), each of them once; and the scan is left only when no status
\* is left past the cursor.
ScanSound ==
    \A p \in Procs :
      LET c == calls[p]
      IN  /\ InScan(c) =>
                /\ db.statuses = c.before.statuses
                /\ \A i \in DOMAIN c.rows :
                     /\ c.rows[i] \in Owned(c)
                     /\ i < Len(c.rows) => c.rows[i].id > c.rows[i + 1].id
                /\ c.rows # <<>> => c.rows[Len(c.rows)].id = c.maxID
                /\ Scanned(c) =
                     { s \in Owned(c) :
                         IF c.rows # <<>> THEN s.id > c.rows[1].id
                         ELSE c.maxID # 0 /\ s.id >= c.maxID }
                /\ \A s \in Owned(c) : Count(c.msgs, DeleteNote(s, c.account)) <= 1
          /\ (c.op = "Delete" /\ c.pc = "enqueueStatuses") =>
                /\ Scanned(c) = Owned(c)
                /\ c.queries = c.pages + 1
                /\ db.statuses = c.before.statuses

\* C25: the status scan terminates: every scan that is begun is left, by its
\* first empty page or by a store failure, and while it runs each page ends
\* at the cursor, lies strictly past the cursor of the page before, and
\* returns no status a second time, though no status row is deleted.
C25_ScanTerminates ==
    /\ []ScanSound
    /\ \A p \in Procs : InScan(calls[p]) ~> ~InScan(calls[p])

\* A scan of more than two full pages has run to its end: the third page was
\* the last one holding statuses, the fourth was empty.
C25_Witness ==
    \E p \in Procs :
      LET c == calls[p]
      IN  /\ c.op = "Delete" /\ c.pc = "enqueueStatuses"
          /\ c.pages = 3 /\ c.queries = 4
          /\ Cardinality(Scanned(c)) = MaxStatuses
          /\ db.statuses = c.before.statuses

====
